---- MODULE Spec2Model ----
(***************************************************************************)
(* Package / symbol usage analyzers of the ts-diff repository.             *)
(*                                                                         *)
(* A source file is a sequence of top-level statements, one per line, in   *)
(* a canonical rendering with no indentation.  Line i of a file is its     *)
(* statement i (1-based index, so the 0-based line is i - 1); columns are  *)
(* computed from the rendering.  The analyzers are modelled as runs of     *)
(* their command-line programs over a project of such files.               *)
(***************************************************************************)
EXTENDS Integers, Sequences, FiniteSets, TLC

VARIABLES
    backend,        \* which command-line tool runs: "ts", "babel", "go", "pkg"
    files,          \* the project: sequence of files (sequences of statements)
    pkgName,        \* packageName argument
    symName,        \* symbolName argument ("*" = wildcard)
    outArg,         \* output path argument ("" = not given)
    argsOk,         \* enough command-line arguments were given
    rootOk,         \* the project root exists and can be read
    fileStatus,     \* per file: "ok", "unreadable", "unparsable", "traverse"
    stats,          \* AnalysisStats of the import analyzer
    pc,             \* position of the program
    idx,            \* loop index over the source files
    packageUsages,  \* PackageUsage[] built by the first pass
    symMap,         \* importedSymbolsByFile: file -> set of imported names
    results,        \* SymbolUsageResult[] of findSymbolUsage
    returned,       \* value returned by analyzeSymbolUsage
    fsWrites,       \* files written: sequence of [path, content]
    writeFailed,    \* a write of the output file was attempted and failed
    stdout,         \* lines printed on the console
    exitCode,       \* process exit code (-1 while running)
    call            \* a direct call of one function: its arguments and result

(* What the run is given; no step changes it. *)
inputs == <<backend, files, pkgName, symName, outArg, argsOk, rootOk, fileStatus>>

vars == <<inputs, stats, pc, idx, packageUsages, symMap, results, returned,
          fsWrites, writeFailed, stdout, exitCode, call>>

----------------------------------------------------------------------------
(* Bounds *)

MaxStmts == 4

MaxStmtsShared == 2

MaxFiles == 2

----------------------------------------------------------------------------
(* Generic helpers *)

Range(s) == {s[i] : i \in 1..Len(s)}

SeqsUpTo(S, n) == UNION {[1..k -> S] : k \in 0..n}

----------------------------------------------------------------------------
(* Statements.  k is the statement kind:                                    *)
(*   importNamed        import { e as l, ... } from 'spec'                  *)
(*   importDefault      import name from 'spec'                             *)
(*   importNamespace    import * as name from 'spec'                        *)
(*   importSideEffect   import 'spec'                                       *)
(*   requireDestructure const { e: l, ... } = require('spec')               *)
(*   requireSimple      const name = require('spec')                        *)
(*   requireProp        require('spec').prop                                *)
(*   requireBare        require('spec')                                     *)
(*   call               name(0)                                             *)
(*   propCall           name.prop()                                         *)
(*   objLit             ({ name: 1 })                                       *)
(*   globalAccess       name.prop.x()     with name = window or global      *)
(*   define             define(['d1', 'd2'], function(p1, p2) {})           *)
(*   requireArray       require(['d1', 'd2'], function(p1, p2) {})          *)
(*   umd                a factory wrapper invoked immediately, see Render   *)
(* els is the list of <<exportedName, localName>> pairs of a named import   *)
(* or destructuring pattern; for define and requireArray it is the list of  *)
(* <<dependency, parameter>> pairs, the parameter being "" from the index   *)
(* on where the callback has no more parameters; for umd it is the pair of  *)
(* parameter names of the wrapper.                                          *)

Stmt(k, spec, els, name, prop) ==
    [k |-> k, spec |-> spec, els |-> els, name |-> name, prop |-> prop]

ImportNamed(spec, els)        == Stmt("importNamed", spec, els, "", "")
ImportDefault(spec, n)        == Stmt("importDefault", spec, <<>>, n, "")
ImportNamespace(spec, n)      == Stmt("importNamespace", spec, <<>>, n, "")
ImportSideEffect(spec)        == Stmt("importSideEffect", spec, <<>>, "", "")
RequireDestructure(spec, els) == Stmt("requireDestructure", spec, els, "", "")
RequireSimple(spec, n)        == Stmt("requireSimple", spec, <<>>, n, "")
RequireProp(spec, p)          == Stmt("requireProp", spec, <<>>, "", p)
RequireBare(spec)             == Stmt("requireBare", spec, <<>>, "", "")
Call(n)                       == Stmt("call", "", <<>>, n, "")
PropCall(n, p)                == Stmt("propCall", "", <<>>, n, p)
ObjLit(n)                     == Stmt("objLit", "", <<>>, n, "")
GlobalAccess(n, p)            == Stmt("globalAccess", "", <<>>, n, p)
Define(els)                   == Stmt("define", "", els, "", "")
RequireArray(els)             == Stmt("requireArray", "", els, "", "")
Umd(spec, els, n, form)       == Stmt("umd", spec, els, n, form)

(* An importStatement that is a fixed description instead of source text. *)
Described(text)               == Stmt("described", "", <<>>, text, "")

(* Width of one element of a named import / destructuring pattern, and the  *)
(* separator between exported and local name ("e as l" / "e: l").           *)
AliasSep(k) == IF k = "importNamed" THEN 4 ELSE 2

ElWidth(k, el) ==
    IF el[1] = el[2] THEN Len(el[2]) ELSE Len(el[1]) + AliasSep(k) + Len(el[2])

(* Column of the first character of element i: after "import { " or        *)
(* "const { ", elements separated by ", ".                                  *)
RECURSIVE ElStart(_, _, _)
ElStart(k, els, i) ==
    IF i = 1 THEN (IF k = "importNamed" THEN 9 ELSE 8)
    ELSE ElStart(k, els, i - 1) + ElWidth(k, els[i - 1]) + 2

(* Column of the local name (element.name) of element i. *)
ElNameCol(k, els, i) ==
    IF els[i][1] = els[i][2] THEN ElStart(k, els, i)
    ELSE ElStart(k, els, i) + Len(els[i][1]) + AliasSep(k)

LocalNames(els) == [i \in 1..Len(els) |-> els[i][2]]

(* The dependency array and the parameter list of a define / require call. *)
RECURSIVE DepsText(_, _)
DepsText(els, i) ==
    IF i > Len(els) THEN ""
    ELSE (IF i > 1 THEN ", " ELSE "") \o "'" \o els[i][1] \o "'" \o DepsText(els, i + 1)

RECURSIVE ParamsText(_, _)
ParamsText(els, i) ==
    IF i > Len(els) \/ els[i][2] = "" THEN ""
    ELSE (IF i > 1 THEN ", " ELSE "") \o els[i][2] \o ParamsText(els, i + 1)

(* Text of a define / require call up to the parameter list. *)
AmdHead(st) ==
    (IF st.k = "define" THEN "define" ELSE "require")
        \o "([" \o DepsText(st.els, 1) \o "], function("

(* Text of a factory wrapper up to the require call.  Form "inner" is       *)
(*   (function(root, factory) { factory(require('p')) }(this, function(P) {})) *)
(* and form "outer" is                                                      *)
(*   (function(root, factory) { var P = require('p') })(this, function() {}) *)
UmdHead(st) ==
    "(function(" \o st.els[1][1] \o ", " \o st.els[1][2] \o ") { "
        \o (IF st.prop = "inner" THEN st.els[1][2] \o "("
            ELSE "var " \o st.name \o " = ")

(* Column of parameter i of the callback of a define / require call. *)
RECURSIVE ParamCol(_, _)
ParamCol(st, i) ==
    IF i = 1 THEN Len(AmdHead(st))
    ELSE ParamCol(st, i - 1) + Len(st.els[i - 1][2]) + 2

(* Identifier nodes of the parameters of the callback, from parameter i. *)
RECURSIVE ParamNodes(_, _)
ParamNodes(st, i) ==
    IF i > Len(st.els) \/ st.els[i][2] = "" THEN <<>>
    ELSE <<[t |-> "id", text |-> st.els[i][2], parent |-> "Parameter",
            isPropName |-> FALSE, inRequireBinding |-> FALSE,
            col |-> ParamCol(st, i), prop |-> "", nameCol |-> ParamCol(st, i)]>>
         \o ParamNodes(st, i + 1)

----------------------------------------------------------------------------
(* Syntax tree of a statement, flattened in the order ts.forEachChild       *)
(* visits it.  An "id" node is an Identifier (text, kind of its parent,     *)
(* whether it is the name of a PropertyAssignment, whether its enclosing    *)
(* BindingElement belongs to a `= require(...)` declaration, start column); *)
(* a "pa" node is a PropertyAccessExpression whose expression is an         *)
(* Identifier (text = that identifier, prop = the accessed name, col = the  *)
(* start of the whole expression, nameCol = the start of the name).         *)

IdNode(text, parent, isPropName, inRequireBinding, col) ==
    [t |-> "id", text |-> text, parent |-> parent, isPropName |-> isPropName,
     inRequireBinding |-> inRequireBinding, col |-> col, prop |-> "", nameCol |-> col]

PaNode(obj, prop, col) ==
    [t |-> "pa", text |-> obj, parent |-> "", isPropName |-> FALSE,
     inRequireBinding |-> FALSE, col |-> col, prop |-> prop,
     nameCol |-> col + Len(obj) + 1]

(* Identifiers of element i of a named import or an object binding pattern: *)
(* propertyName (when renamed) then name.                                   *)
ElNodes(k, els, i) ==
    LET parent == IF k = "importNamed" THEN "ImportSpecifier" ELSE "BindingElement"
        inReq  == k = "requireDestructure"
    IN  (IF els[i][1] = els[i][2] THEN <<>>
         ELSE <<IdNode(els[i][1], parent, FALSE, inReq, ElStart(k, els, i))>>)
        \o <<IdNode(els[i][2], parent, FALSE, inReq, ElNameCol(k, els, i))>>

RECURSIVE ElsNodes(_, _, _)
ElsNodes(k, els, i) ==
    IF i > Len(els) THEN <<>> ELSE ElNodes(k, els, i) \o ElsNodes(k, els, i + 1)

(* Column of `require` in "const { ... } = require(" and "const x = require(" *)
DestructureRequireCol(els) ==
    ElStart("requireDestructure", els, Len(els))
        + ElWidth("requireDestructure", els[Len(els)]) + 5

StmtNodes(st) ==
    CASE st.k = "importNamed"        -> ElsNodes(st.k, st.els, 1)
      [] st.k = "importDefault"      -> <<IdNode(st.name, "ImportClause", FALSE, FALSE, 7)>>
      [] st.k = "importNamespace"    -> <<IdNode(st.name, "NamespaceImport", FALSE, FALSE, 12)>>
      [] st.k = "importSideEffect"   -> <<>>
      [] st.k = "requireDestructure" ->
            ElsNodes(st.k, st.els, 1)
            \o <<IdNode("require", "CallExpression", FALSE, FALSE, DestructureRequireCol(st.els))>>
      [] st.k = "requireSimple"      ->
            <<IdNode(st.name, "VariableDeclaration", FALSE, FALSE, 6),
              IdNode("require", "CallExpression", FALSE, FALSE, 9 + Len(st.name))>>
      [] st.k = "requireProp"        ->
            <<IdNode("require", "CallExpression", FALSE, FALSE, 0),
              IdNode(st.prop, "PropertyAccessExpression", FALSE, FALSE, 12 + Len(st.spec))>>
      [] st.k = "requireBare"        -> <<IdNode("require", "CallExpression", FALSE, FALSE, 0)>>
      [] st.k = "call"               -> <<IdNode(st.name, "CallExpression", FALSE, FALSE, 0)>>
      [] st.k = "propCall"           ->
            <<PaNode(st.name, st.prop, 0),
              IdNode(st.name, "PropertyAccessExpression", FALSE, FALSE, 0),
              IdNode(st.prop, "PropertyAccessExpression", FALSE, FALSE, Len(st.name) + 1)>>
      [] st.k = "objLit"             -> <<IdNode(st.name, "PropertyAssignment", TRUE, FALSE, 3)>>
      [] st.k = "globalAccess"       ->
            <<PaNode(st.name, st.prop, 0),
              IdNode(st.name, "PropertyAccessExpression", FALSE, FALSE, 0),
              IdNode(st.prop, "PropertyAccessExpression", FALSE, FALSE, Len(st.name) + 1),
              IdNode("x", "PropertyAccessExpression", FALSE, FALSE,
                     Len(st.name) + Len(st.prop) + 2)>>
      [] st.k \in {"define", "requireArray"} ->
            <<IdNode(IF st.k = "define" THEN "define" ELSE "require",
                     "CallExpression", FALSE, FALSE, 0)>>
            \o ParamNodes(st, 1)
      [] st.k = "umd" ->
            <<IdNode(st.els[1][1], "Parameter", FALSE, FALSE, 10),
              IdNode(st.els[1][2], "Parameter", FALSE, FALSE, 12 + Len(st.els[1][1]))>>
            \o (IF st.prop = "inner"
                THEN <<IdNode(st.els[1][2], "CallExpression", FALSE, FALSE,
                              Len(UmdHead(st)) - Len(st.els[1][2]) - 1)>>
                ELSE <<IdNode(st.name, "VariableDeclaration", FALSE, FALSE,
                              Len(UmdHead(st)) - Len(st.name) - 3)>>)
            \o <<IdNode("require", "CallExpression", FALSE, FALSE, Len(UmdHead(st)))>>
            \o (IF st.prop = "inner"
                THEN <<IdNode(st.name, "Parameter", FALSE, FALSE,
                              Len(UmdHead(st)) + Len(st.spec) + 30)>>
                ELSE <<>>)
      [] OTHER                       -> <<>>

(* All nodes of a file in visiting order, each with its 0-based line. *)
RECURSIVE FileNodesFrom(_, _)
FileNodesFrom(stmts, i) ==
    IF i > Len(stmts) THEN <<>>
    ELSE [j \in 1..Len(StmtNodes(stmts[i])) |->
              [node |-> StmtNodes(stmts[i])[j], line |-> i - 1]]
         \o FileNodesFrom(stmts, i + 1)

FileNodes(stmts) == FileNodesFrom(stmts, 1)

----------------------------------------------------------------------------
(* Source text.  Render gives the text of a statement; a file's content is  *)
(* its rendered lines joined by "\n".                                       *)

RenderEl(k, el) ==
    IF el[1] = el[2] THEN el[2]
    ELSE el[1] \o (IF k = "importNamed" THEN " as " ELSE ": ") \o el[2]

RECURSIVE RenderEls(_, _, _)
RenderEls(k, els, i) ==
    IF i > Len(els) THEN ""
    ELSE (IF i > 1 THEN ", " ELSE "") \o RenderEl(k, els[i]) \o RenderEls(k, els, i + 1)

Render(st) ==
    CASE st.k = "importNamed" ->
            "import { " \o RenderEls(st.k, st.els, 1) \o " } from '" \o st.spec \o "'"
      [] st.k = "importDefault"   -> "import " \o st.name \o " from '" \o st.spec \o "'"
      [] st.k = "importNamespace" -> "import * as " \o st.name \o " from '" \o st.spec \o "'"
      [] st.k = "importSideEffect" -> "import '" \o st.spec \o "'"
      [] st.k = "requireDestructure" ->
            "const { " \o RenderEls(st.k, st.els, 1) \o " } = require('" \o st.spec \o "')"
      [] st.k = "requireSimple"   -> "const " \o st.name \o " = require('" \o st.spec \o "')"
      [] st.k = "requireProp"     -> "require('" \o st.spec \o "')." \o st.prop
      [] st.k = "requireBare"     -> "require('" \o st.spec \o "')"
      [] st.k = "call"            -> st.name \o "(0)"
      [] st.k = "propCall"        -> st.name \o "." \o st.prop \o "()"
      [] st.k = "objLit"          -> "({ " \o st.name \o ": 1 })"
      [] st.k = "globalAccess"    -> st.name \o "." \o st.prop \o ".x()"
      [] st.k \in {"define", "requireArray"} ->
            AmdHead(st) \o ParamsText(st.els, 1) \o ") {})"
      [] st.k = "umd" ->
            UmdHead(st) \o "require('" \o st.spec \o "')"
                \o (IF st.prop = "inner"
                    THEN ") }(this, function(" \o st.name \o ") {}))"
                    ELSE " })(this, function() {})")
      [] OTHER                    -> ""

RenderLines(stmts) == [i \in 1..Len(stmts) |-> Render(stmts[i])]

(* Characters matched by \w. *)
WordChars ==
    {"a", "b", "c", "d", "e", "f", "g", "h", "i", "j", "k", "l", "m", "n", "o", "p",
     "q", "r", "s", "t", "u", "v", "w", "x", "y", "z", "A", "B", "C", "D", "E", "F",
     "G", "H", "I", "J", "K", "L", "M", "N", "O", "P", "Q", "R", "S", "T", "U", "V",
     "W", "X", "Y", "Z", "0", "1", "2", "3", "4", "5", "6", "7", "8", "9", "_"}

(* The maximal runs of word characters of a line from index i (1-based) on, *)
(* each with its 0-based start column.                                      *)
RECURSIVE WordsFrom(_, _)
WordsFrom(str, i) ==
    LET starts == {j \in i..Len(str) : SubSeq(str, j, j) \in WordChars}
        start  == CHOOSE j \in starts : \A k \in starts : j <= k
        stops  == {j \in start..Len(str) : SubSeq(str, j, j) \notin WordChars}
        stop   == IF stops = {} THEN Len(str) + 1
                  ELSE CHOOSE j \in stops : \A k \in stops : j <= k
    IN  IF starts = {} THEN <<>>
        ELSE <<[text |-> SubSeq(str, start, stop - 1), col |-> start - 1]>>
             \o WordsFrom(str, stop)

Words(str) == WordsFrom(str, 1)

(* Offset in the content of column col of line i (1-based i, 0-based col). *)
RECURSIVE LineOffset(_, _)
LineOffset(lines, i) ==
    IF i = 1 THEN 0 ELSE LineOffset(lines, i - 1) + Len(lines[i - 1]) + 1

Offset(lines, i, col) == LineOffset(lines, i) + col

----------------------------------------------------------------------------
(* findSymbolUsage, first pass: visitNodeForImports (TypeScript AST).       *)

PackageUsage(fileName, st, line, character, importedSymbols, importStyle) ==
    [fileName |-> fileName, importStatement |-> st, line |-> line,
     character |-> character, importedSymbols |-> importedSymbols,
     importStyle |-> importStyle, symbolUsages |-> <<>>]

(* The module specifier must equal the package name. *)
TsSpecifierMatches(spec, pkg) == spec = pkg

(* Whether a binding named n is pushed to packageUsages under query sym. *)
TsWanted(n, sym) == n = sym \/ sym = "*"

(* Records pushed for the elements of a named import / object binding      *)
(* pattern: one per element whose local name is wanted, at the position of *)
(* element.name.  The importedSymbols array is shared by all of them, so   *)
(* every record ends up with the complete list.                            *)
RECURSIVE TsElementRecords(_, _, _, _, _, _)
TsElementRecords(f, st, line, sym, style, i) ==
    IF i > Len(st.els) THEN <<>>
    ELSE (IF TsWanted(st.els[i][2], sym)
          THEN <<PackageUsage(f, st, line, ElNameCol(st.k, st.els, i),
                              LocalNames(st.els), style)>>
          ELSE <<>>)
         \o TsElementRecords(f, st, line, sym, style, i + 1)

(* Records pushed to packageUsages by one statement. *)
TsImportRecords(f, st, line, pkg, sym) ==
    IF ~TsSpecifierMatches(st.spec, pkg) THEN <<>>
    ELSE CASE st.k = "importNamed" -> TsElementRecords(f, st, line, sym, "ES6Import", 1)
           [] st.k = "importDefault" -> <<>>
           [] st.k = "importNamespace" ->
                 IF sym = "*"
                 THEN <<PackageUsage(f, st, line, 12, <<"* as " \o st.name>>, "ES6Import")>>
                 ELSE <<>>
           [] st.k = "importSideEffect" ->
                 IF sym = "*"
                 THEN <<PackageUsage(f, st, line, 8, <<"(side-effect only)">>, "ES6Import")>>
                 ELSE <<>>
           [] st.k = "requireDestructure" -> TsElementRecords(f, st, line, sym, "CommonJS", 1)
           [] st.k = "requireSimple" ->
                 IF TsWanted(st.name, sym)
                 THEN <<PackageUsage(f, st, line, 6, <<st.name>>, "CommonJS")>>
                 ELSE <<>>
           [] st.k = "requireProp" ->
                 IF TsWanted(st.prop, sym)
                 THEN <<PackageUsage(f, st, line, 12 + Len(st.spec), <<st.prop>>, "CommonJS")>>
                 ELSE <<>>
           [] st.k = "requireBare" ->
                 IF sym = "*"
                 THEN <<PackageUsage(f, st, line, 9, <<pkg>>, "CommonJS")>>
                 ELSE <<>>
           [] OTHER -> <<>>

(* Keys set in the file's entry of importedSymbolsByFile by one statement. *)
TsImportKeys(st, pkg) ==
    IF ~TsSpecifierMatches(st.spec, pkg) THEN {}
    ELSE CASE st.k \in {"importNamed", "requireDestructure"} -> Range(LocalNames(st.els))
           [] st.k \in {"importDefault", "importNamespace", "requireSimple"} -> {st.name}
           [] OTHER -> {}

RECURSIVE TsFileImportRecords(_, _, _, _, _)
TsFileImportRecords(f, stmts, pkg, sym, i) ==
    IF i > Len(stmts) THEN <<>>
    ELSE TsImportRecords(f, stmts[i], i - 1, pkg, sym)
         \o TsFileImportRecords(f, stmts, pkg, sym, i + 1)

TsFileImportKeys(stmts, pkg) ==
    UNION {TsImportKeys(stmts[i], pkg) : i \in 1..Len(stmts)}

----------------------------------------------------------------------------
(* findSymbolUsage, second pass: visitNodeForUsages.                        *)

Location(line, character) == [line |-> line, character |-> character]

(* usagesBySymbol is a Map: insertion-ordered, one SymbolUsage per name.    *)
AddUsage(usages, name, loc) ==
    IF \E i \in 1..Len(usages) : usages[i].symbolName = name
    THEN [i \in 1..Len(usages) |->
             IF usages[i].symbolName = name
             THEN [usages[i] EXCEPT !.locations = Append(@, loc)]
             ELSE usages[i]]
    ELSE Append(usages, [symbolName |-> name, locations |-> <<loc>>])

(* Variant: the name of an import specifier is not skipped. *)
TsSkipIdentifier_KeepImportSpecifier(n) ==
    \/ n.parent \in {"ImportDeclaration", "ImportClause"}
    \/ (n.parent = "CallExpression" /\ n.text = "require")
    \/ (n.parent = "PropertyAssignment" /\ n.isPropName)

(* An identifier that is skipped as being part of an import or require      *)
(* declaration, or the key of an object-literal property.                   *)
TsSkipIdentifier(n) ==
    \/ n.parent \in {"ImportDeclaration", "ImportSpecifier", "ImportClause"}
    \/ (n.parent = "CallExpression" /\ n.text = "require")
    \/ (n.parent = "PropertyAssignment" /\ n.isPropName)

(* Position recorded for a property access on an imported name. *)
TsPropertyAccessCol(n) == n.col

(* Effect of visiting one node on usagesBySymbol. *)
TsVisitNode(usages, n, line, keys) ==
    IF n.t = "id"
    THEN IF n.text \in keys /\ ~TsSkipIdentifier(n)
         THEN AddUsage(usages, n.text, Location(line, n.col))
         ELSE usages
    ELSE IF n.text \in keys
         THEN AddUsage(usages, n.text \o "." \o n.prop,
                       Location(line, TsPropertyAccessCol(n)))
         ELSE usages

RECURSIVE TsVisitNodes(_, _, _, _)
TsVisitNodes(usages, nodes, i, keys) ==
    IF i > Len(nodes) THEN usages
    ELSE TsVisitNodes(TsVisitNode(usages, nodes[i].node, nodes[i].line, keys),
                      nodes, i + 1, keys)

VisitNodeForUsages(stmts, keys) == TsVisitNodes(<<>>, FileNodes(stmts), 1, keys)

(* The keys kept in the file's symbol map for the query. *)
TsFilterKeys(keys, sym) == IF sym = "*" THEN keys ELSE keys \cap {sym}

(* Variant: the usages found in file f are attached to every record. *)
TsAttachUsages_AllFiles(usagesList, f, symbolUsages) ==
    [i \in 1..Len(usagesList) |-> [usagesList[i] EXCEPT !.symbolUsages = symbolUsages]]

(* Attach the usages found in file f to every packageUsages record of f. *)
TsAttachUsages(usagesList, f, symbolUsages) ==
    [i \in 1..Len(usagesList) |->
        IF usagesList[i].fileName = f
        THEN [usagesList[i] EXCEPT !.symbolUsages = symbolUsages]
        ELSE usagesList[i]]

----------------------------------------------------------------------------
(* findSymbolUsage, conversion of PackageUsage to SymbolUsageResult.        *)

SymbolUsageResult(usage, importedSymbol, locations) ==
    [filePath |-> usage.fileName, importStatement |-> usage.importStatement,
     line |-> usage.line, character |-> usage.character,
     importedSymbol |-> importedSymbol, importStyle |-> usage.importStyle,
     usageLocations |-> locations]

(* usage.symbolUsages is always an array (initialised to []), which is      *)
(* truthy even when empty: one result per SymbolUsage attached.             *)
TsConvertUsage(usage, sym) ==
    [j \in 1..Len(usage.symbolUsages) |->
        SymbolUsageResult(usage,
                          IF sym = "*" THEN usage.symbolUsages[j].symbolName ELSE sym,
                          usage.symbolUsages[j].locations)]

RECURSIVE TsConvertFrom(_, _, _)
TsConvertFrom(usagesList, sym, i) ==
    IF i > Len(usagesList) THEN <<>>
    ELSE TsConvertUsage(usagesList[i], sym) \o TsConvertFrom(usagesList, sym, i + 1)

TsConvert(usagesList, sym) == TsConvertFrom(usagesList, sym, 1)

----------------------------------------------------------------------------
(* Inputs.  Every file draws its statements from one vocabulary.            *)

TsVocabularies == {
    {ImportNamed("p", << <<"a", "a">> >>), ImportNamed("p", << <<"a", "b">> >>),
     ImportNamed("q", << <<"a", "a">> >>), Call("a"), Call("b")},
    {RequireDestructure("p", << <<"a", "a">> >>), RequireSimple("p", "b"),
     Call("a"), ObjLit("a"), PropCall("b", "a")},
    {ImportNamespace("p", "N"), ImportDefault("p", "b"), PropCall("N", "a"),
     Call("a"), ImportSideEffect("p")},
    {ImportNamed("p/s", << <<"a", "a">> >>), RequireSimple("p/s", "b"),
     Call("a"), PropCall("b", "a")}
}

TsFiles == UNION {SeqsUpTo(v, MaxStmts) : v \in TsVocabularies}

(* A project is one file, optionally followed by a second, fixed file. *)
NeighbourFile == <<ImportNamed("p", << <<"a", "a">> >>), Call("a")>>

TsProjects ==
    {<<f>> : f \in TsFiles}
        \cup {<<f, NeighbourFile>> : f \in {g \in TsFiles : Len(g) <= MaxStmtsShared}}

TsSymbols == {"a", "*"}

BabelSymbols == {"a", "*", "default"}

OutArgs == {"", "out.json"}

(* analyzeSymbolUsage: path.join(projectRoot, 'symbol_usage_results.json') *)
DefaultOutputPath == "symbol_usage_results.json"

NoKeys == [f \in 1..Len(files) |-> {}]

NoStats == [filesProcessed |-> 0, filesSkipped |-> 0, importCount |-> 0]

(* No function is called directly during a run of a command line. *)
NoCall == [fn |-> "none"]

(* Console output: a line of text, or a printed list of results. *)
Line(text) == [text |-> text, data |-> <<>>]

Printed(rs) == [text |-> "results", data |-> rs]

InitCommon ==
    /\ pkgName = "p"
    /\ outArg \in OutArgs
    /\ argsOk \in BOOLEAN
    /\ rootOk \in BOOLEAN
    /\ pc = "cli"
    /\ idx = 1
    /\ packageUsages = <<>>
    /\ results = <<>>
    /\ returned = <<>>
    /\ fsWrites = <<>>
    /\ writeFailed = FALSE
    /\ stdout = <<>>
    /\ exitCode = -1
    /\ stats = NoStats
    /\ call = NoCall

AllOk == [f \in 1..Len(files) |-> "ok"]

InitTs ==
    /\ backend = "ts"
    /\ InitCommon
    /\ symName \in TsSymbols
    /\ files \in (IF argsOk /\ rootOk THEN TsProjects ELSE {<<>>})
    /\ fileStatus = AllOk
    /\ symMap = NoKeys

----------------------------------------------------------------------------
(* The find-symbol-usage command line (src/findSymbolUsage.ts) running      *)
(* analyzeSymbolUsage / findSymbolUsage (src/utils/findSymbolUsage.ts).     *)

(* args.length < 2: usage message and process.exit(1). *)
TsCliStart ==
    /\ backend = "ts" /\ pc = "cli"
    /\ IF argsOk
       THEN /\ pc' = "collect"
            /\ stdout' = Append(stdout, Line("Analyzing usage"))
            /\ UNCHANGED exitCode
       ELSE /\ pc' = "exited"
            /\ exitCode' = 1
            /\ stdout' = Append(stdout, Line("usage"))
    /\ UNCHANGED <<inputs, call, stats, idx,
                   packageUsages, symMap, results, returned, fsWrites, writeFailed>>

(* readFilesRecursively: fs.readdirSync throws when the root is missing;    *)
(* analyzeSymbolUsage catches the error and returns [].                     *)
TsCollect ==
    /\ backend = "ts" /\ pc = "collect"
    /\ IF rootOk
       THEN /\ pc' = IF files = <<>> THEN "convert" ELSE "imports"
            /\ UNCHANGED returned
       ELSE /\ pc' = "report"
            /\ returned' = <<>>
    /\ idx' = 1
    /\ UNCHANGED <<inputs, call, stats,
                   packageUsages, symMap, results, fsWrites, writeFailed, stdout, exitCode>>

(* First pass over source file idx. *)
TsImportsFile ==
    /\ backend = "ts" /\ pc = "imports" /\ idx <= Len(files)
    /\ packageUsages' = packageUsages
           \o TsFileImportRecords(idx, files[idx], pkgName, symName, 1)
    /\ symMap' = [symMap EXCEPT ![idx] = TsFileImportKeys(files[idx], pkgName)]
    /\ pc' = IF idx = Len(files) THEN "usages" ELSE "imports"
    /\ idx' = IF idx = Len(files) THEN 1 ELSE idx + 1
    /\ UNCHANGED <<inputs, call, stats,
                   results, returned, fsWrites, writeFailed, stdout, exitCode>>

(* Second pass over source file idx. *)
TsUsagesFile ==
    /\ backend = "ts" /\ pc = "usages" /\ idx <= Len(files)
    /\ LET keys == IF symMap[idx] = {} THEN {} ELSE TsFilterKeys(symMap[idx], symName)
       IN  /\ symMap' = [symMap EXCEPT ![idx] = keys]
           /\ packageUsages' =
                 IF keys = {} THEN packageUsages
                 ELSE TsAttachUsages(packageUsages, idx,
                                     VisitNodeForUsages(files[idx], keys))
    /\ pc' = IF idx = Len(files) THEN "convert" ELSE "usages"
    /\ idx' = IF idx = Len(files) THEN 1 ELSE idx + 1
    /\ UNCHANGED <<inputs, call, stats,
                   results, returned, fsWrites, writeFailed, stdout, exitCode>>

TsConvertStep ==
    /\ backend = "ts" /\ pc = "convert"
    /\ results' = TsConvert(packageUsages, symName)
    /\ pc' = "write"
    /\ UNCHANGED <<inputs, call, stats, idx,
                   packageUsages, symMap, returned, fsWrites, writeFailed, stdout, exitCode>>

(* const finalOutputPath = outputPath || defaultOutputPath *)
TsFinalOutputPath(outputPath) == IF outputPath = "" THEN DefaultOutputPath ELSE outputPath

(* fs.writeFileSync(finalOutputPath, ...): succeeds, or throws and the      *)
(* catch of analyzeSymbolUsage returns [].                                  *)
TsWrite ==
    /\ backend = "ts" /\ pc = "write"
    /\ \E ok \in BOOLEAN :
          IF ok
          THEN /\ fsWrites' = Append(fsWrites, [path |-> TsFinalOutputPath(outArg),
                                                content |-> results])
               /\ returned' = results
               /\ UNCHANGED writeFailed
          ELSE /\ writeFailed' = TRUE
               /\ returned' = <<>>
               /\ UNCHANGED fsWrites
    /\ pc' = "report"
    /\ UNCHANGED <<inputs, call, stats, idx,
                   packageUsages, symMap, results, stdout, exitCode>>

(* The command line reports and the process ends normally. *)
TsCliReportMessage(outputPath) ==
    IF outputPath = "" THEN "Analysis complete." ELSE "Results saved to " \o outputPath

TsCliReport ==
    /\ backend = "ts" /\ pc = "report"
    /\ stdout' = Append(stdout, Line(TsCliReportMessage(outArg)))
    /\ exitCode' = 0
    /\ pc' = "exited"
    /\ UNCHANGED <<inputs, call, stats, idx,
                   packageUsages, symMap, results, returned, fsWrites, writeFailed>>

NextTs ==
    \/ TsCliStart
    \/ TsCollect
    \/ TsImportsFile
    \/ TsUsagesFile
    \/ TsConvertStep
    \/ TsWrite
    \/ TsCliReport

SpecTs == InitTs /\ [][NextTs]_vars

----------------------------------------------------------------------------
(* Properties of the symbol-usage analyzer.                                 *)

(* findSymbolUsage has returned its results. *)
TsAnalysed == backend = "ts" /\ argsOk /\ rootOk /\ pc \in {"write", "report", "exited"}

ResultsOfFile(f) == SelectSeq(results, LAMBDA r : r.filePath = f)

(* Statement st imports from pkg or contains the identifier s. *)
Mentions(st, pkg, s) ==
    \/ st.spec = pkg
    \/ \E n \in Range(StmtNodes(st)) : n.text = s \/ n.prop = s

(* stmts[i] is `import { s } from 'pkg'`, stmts[j] the only call `s(0)`,     *)
(* and no other statement mentions pkg or s.                                *)
C1_Shape(stmts, i, j, pkg, s) ==
    /\ i < j
    /\ stmts[i] = ImportNamed(pkg, << <<s, s>> >>)
    /\ stmts[j] = Call(s)
    /\ \A k \in 1..Len(stmts) : k \notin {i, j} => ~Mentions(stmts[k], pkg, s)

(* C1: a file that imports s by a named ES6 import from p and calls s once  *)
(* yields, for the query (p, s), exactly one record: style ES6Import,       *)
(* importedSymbol s, and exactly one usage location, the call site.         *)
C1_NamedImportOneUsage ==
    (TsAnalysed /\ symName # "*") =>
        \A f \in 1..Len(files) : \A i, j \in 1..Len(files[f]) :
            C1_Shape(files[f], i, j, pkgName, symName) =>
                /\ Len(ResultsOfFile(f)) = 1
                /\ ResultsOfFile(f)[1].importStyle = "ES6Import"
                /\ ResultsOfFile(f)[1].importedSymbol = symName
                /\ ResultsOfFile(f)[1].importStatement = files[f][i]
                /\ ResultsOfFile(f)[1].usageLocations = <<Location(j - 1, 0)>>

C1_Witness ==
    /\ TsAnalysed /\ pc = "exited" /\ symName = "a"
    /\ \E f \in 1..Len(files) : \E i, j \in 1..Len(files[f]) :
          /\ C1_Shape(files[f], i, j, pkgName, symName)
          /\ j > 2
          /\ Len(ResultsOfFile(f)) = 1
          /\ ResultsOfFile(f)[1].usageLocations = <<Location(j - 1, 0)>>

(* Locations of the identifier l in a file, outside import declarations. *)
Occurrences(stmts, l) ==
    LET nodes == SelectSeq(FileNodes(stmts),
                     LAMBDA x : /\ x.node.t = "id" /\ x.node.text = l
                                /\ x.node.parent \notin
                                     {"ImportSpecifier", "ImportClause", "NamespaceImport"})
    IN  [k \in 1..Len(nodes) |-> Location(nodes[k].line, nodes[k].node.col)]

(* stmts[i] is `import { e as l } from 'pkg'` with l # e, the only import   *)
(* from pkg in the file.                                                    *)
C2_Shape(stmts, i, pkg, e) ==
    /\ stmts[i].k = "importNamed" /\ stmts[i].spec = pkg
    /\ Len(stmts[i].els) = 1
    /\ stmts[i].els[1][1] = e /\ stmts[i].els[1][2] # e
    /\ \A k \in 1..Len(stmts) : k # i => stmts[k].spec # pkg

(* C2: querying (p, e) on a file with `import { e as l } from 'p'` returns  *)
(* a record for that import whose usage locations are exactly the           *)
(* occurrences of the local alias l.                                        *)
C2_AliasedImportFound ==
    (TsAnalysed /\ symName # "*") =>
        \A f \in 1..Len(files) : \A i \in 1..Len(files[f]) :
            (C2_Shape(files[f], i, pkgName, symName)
                 /\ Occurrences(files[f], files[f][i].els[1][2]) # <<>>) =>
                \E r \in Range(results) :
                    /\ r.filePath = f
                    /\ r.importStatement = files[f][i]
                    /\ r.usageLocations = Occurrences(files[f], files[f][i].els[1][2])

(* stmts is `const { m } = require('pkg')` followed by three calls `m(0)`. *)
C3_Shape(stmts, pkg, m) ==
    /\ Len(stmts) = 4
    /\ stmts[1] = RequireDestructure(pkg, << <<m, m>> >>)
    /\ \A k \in 2..4 : stmts[k] = Call(m)

(* C3: for `const { map } = require('lodash')` followed by three calls of   *)
(* map, the wildcard query returns a record for map with exactly three      *)
(* usage locations (the destructuring target is not counted).               *)
C3_ThreeCallsThreeUsages ==
    (TsAnalysed /\ symName = "*") =>
        \A f \in 1..Len(files) : \A m \in {"a"} :
            C3_Shape(files[f], pkgName, m) =>
                /\ \E r \in Range(ResultsOfFile(f)) : r.importedSymbol = m
                /\ \A r \in Range(ResultsOfFile(f)) :
                      r.importedSymbol = m => Len(r.usageLocations) = 3

(* stmts[i] is `import * as N from 'pkg'` and stmts[j] is `N.s()`. *)
C4_Shape(stmts, i, j, pkg, s) ==
    /\ i < j
    /\ stmts[i].k = "importNamespace" /\ stmts[i].spec = pkg
    /\ stmts[j] = PropCall(stmts[i].name, s)

(* C4: for `import * as NS from 'pkg'` and the member access NS.foo(), the  *)
(* query (pkg, foo) keeps the file and returns a usage recorded under the   *)
(* qualified name NS.foo at the position of foo.                            *)
C4_NamespaceMemberFound ==
    (TsAnalysed /\ symName # "*") =>
        \A f \in 1..Len(files) : \A i, j \in 1..Len(files[f]) :
            C4_Shape(files[f], i, j, pkgName, symName) =>
                /\ ResultsOfFile(f) # <<>>
                /\ \E u \in Range(packageUsages) :
                      /\ u.fileName = f
                      /\ \E su \in Range(u.symbolUsages) :
                            /\ su.symbolName = files[f][i].name \o "." \o symName
                            /\ Location(j - 1, Len(files[f][i].name) + 1)
                                   \in Range(su.locations)

----------------------------------------------------------------------------
(* The import analyzer (import-analyzer/analyze-imports.ts), built on the   *)
(* Babel parser.                                                            *)

ImportResult(fileName, st, line, character, importedSymbol, importStyle) ==
    [fileName |-> fileName, importStatement |-> st, line |-> line,
     character |-> character, importedSymbol |-> importedSymbol,
     importStyle |-> importStyle]

StartsWith(str, prefix) ==
    Len(str) >= Len(prefix) /\ SubSeq(str, 1, Len(prefix)) = prefix

(* importSource === packageName || importSource.startsWith(packageName/) *)
BabelSourceMatches(spec, pkg) == spec = pkg \/ StartsWith(spec, pkg \o "/")

(* Records of the specifiers / properties of a named import or destructured *)
(* require, at the start of the specifier (Babel lines are 1-based and are  *)
(* converted with - 1; columns are 0-based).                                *)
RECURSIVE BabelElementRecords(_, _, _, _, _)
BabelElementRecords(f, st, line, sym, i) ==
    IF i > Len(st.els) THEN <<>>
    ELSE (IF \/ st.els[i][1] = sym
             \/ (st.k = "requireDestructure" /\ st.els[i][2] = sym)
          THEN <<ImportResult(f, st, line, ElStart(st.k, st.els, i), st.els[i][2],
                              IF st.k = "importNamed" THEN "ES6" ELSE "CommonJS")>>
          ELSE <<>>)
         \o BabelElementRecords(f, st, line, sym, i + 1)

(* Records pushed by the ImportDeclaration / VariableDeclarator visitors. *)
BabelImportRecords(f, st, line, pkg, sym) ==
    IF ~BabelSourceMatches(st.spec, pkg) THEN <<>>
    ELSE CASE st.k \in {"importNamed", "requireDestructure"} ->
                 BabelElementRecords(f, st, line, sym, 1)
           [] st.k = "importDefault" ->
                 IF sym = "default"
                 THEN <<ImportResult(f, st, line, 7, st.name, "ES6")>>
                 ELSE <<>>
           [] st.k = "importNamespace" ->
                 IF sym = "*"
                 THEN <<ImportResult(f, st, line, 7 + 1, st.name, "ES6")>>
                 ELSE <<>>
           [] st.k = "requireSimple" ->
                 IF sym = "default"
                 THEN <<ImportResult(f, st, line, 6, st.name, "CommonJS")>>
                 ELSE <<>>
           [] OTHER -> <<>>

(* Records of the first n statements of a file. *)
RECURSIVE BabelFileRecords(_, _, _, _, _)
BabelFileRecords(f, stmts, pkg, sym, n) ==
    IF n = 0 THEN <<>>
    ELSE BabelFileRecords(f, stmts, pkg, sym, n - 1)
         \o BabelImportRecords(f, stmts[n], n - 1, pkg, sym)

(* Variant: a parse failure is counted twice. *)
BabelSkips_ParseTwice(status) ==
    IF status = "ok" THEN 0 ELSE IF status = "unparsable" THEN 2 ELSE 1

(* Variant: a traverse failure is counted by its own catch and again by    *)
(* the catch around the whole of analyzeFile.                               *)
BabelSkips_TraverseTwice(status) ==
    IF status = "ok" THEN 0 ELSE IF status = "traverse" THEN 2 ELSE 1

(* stats.filesSkipped++ happens once on each failure path of analyzeFile:   *)
(* read error (outer catch), parse error, traverse error.                   *)
BabelSkips(status) == IF status = "ok" THEN 0 ELSE 1

(* How many statements of a file are visited: all of them, none when the    *)
(* file cannot be read or parsed, the first k when traverse throws there.   *)
BabelVisited(status, stmts, k) ==
    CASE status = "ok"       -> Len(stmts)
      [] status = "traverse" -> k
      [] OTHER               -> 0

BabelVocabularies == {
    {ImportNamed("p", << <<"a", "a">> >>), ImportNamed("p", << <<"a", "b">> >>),
     ImportNamed("p/s", << <<"a", "a">> >>), ImportNamed("pq", << <<"a", "a">> >>)},
    {RequireDestructure("p", << <<"a", "b">> >>), ImportNamespace("p", "N"),
     ImportDefault("p", "b"), Call("a")}
}

BabelFiles == UNION {SeqsUpTo(v, MaxStmtsShared) : v \in BabelVocabularies}

(* A project: one file followed by copies of a fixed file. *)
BabelProjects ==
    {<<f>> \o [i \in 1..n |-> NeighbourFile] : f \in BabelFiles, n \in 0..(MaxFiles - 1)}

FileStatuses == {"ok", "unreadable", "unparsable", "traverse"}

InitBabel ==
    /\ backend = "babel"
    /\ InitCommon
    /\ symName \in BabelSymbols
    /\ files \in (IF argsOk /\ rootOk THEN BabelProjects ELSE {<<>>})
    /\ fileStatus \in [1..Len(files) -> FileStatuses]
    /\ symMap = NoKeys

(* Missing projectPath, packageName or symbolName: usage and exit(1). *)
BabelCliStart ==
    /\ backend = "babel" /\ pc = "cli"
    /\ IF argsOk
       THEN /\ pc' = "traverse"
            /\ UNCHANGED <<exitCode, stdout>>
       ELSE /\ pc' = "exited"
            /\ exitCode' = 1
            /\ stdout' = Append(stdout, Line("usage"))
    /\ UNCHANGED <<inputs, call, stats, idx, packageUsages, symMap, results, returned,
                   fsWrites, writeFailed>>

(* traverseDirectory(projectPath): readdirSync throws on a missing root and *)
(* the catch around the analysis exits with code 1.                         *)
BabelTraverseDirectory ==
    /\ backend = "babel" /\ pc = "traverse"
    /\ IF rootOk
       THEN /\ pc' = "analyze"
            /\ UNCHANGED <<exitCode, stdout>>
       ELSE /\ pc' = "exited"
            /\ exitCode' = 1
            /\ stdout' = Append(stdout, Line("Error"))
    /\ idx' = 1
    /\ UNCHANGED <<inputs, call, stats, packageUsages, symMap, results, returned,
                   fsWrites, writeFailed>>

(* Variant: the results so far are flushed to the output file after every   *)
(* file.                                                                    *)
BabelAnalyzeFile_Flushing ==
    /\ backend = "babel" /\ pc = "analyze" /\ idx <= Len(files)
    /\ \E k \in 0..Len(files[idx]) :
          results' = results \o BabelFileRecords(idx, files[idx], pkgName, symName,
                                    BabelVisited(fileStatus[idx], files[idx], k))
    /\ stats' = [stats EXCEPT !.filesProcessed = @ + 1,
                              !.filesSkipped = @ + BabelSkips(fileStatus[idx])]
    /\ idx' = idx + 1
    /\ fsWrites' = IF outArg # ""
                   THEN <<[path |-> outArg, content |-> results']>>
                   ELSE fsWrites
    /\ UNCHANGED <<inputs, call, pc, packageUsages, symMap, returned,
                   writeFailed, stdout, exitCode>>

(* analyzeFile on file idx. *)
BabelAnalyzeFile ==
    /\ backend = "babel" /\ pc = "analyze" /\ idx <= Len(files)
    /\ \E k \in 0..Len(files[idx]) :
          results' = results \o BabelFileRecords(idx, files[idx], pkgName, symName,
                                    BabelVisited(fileStatus[idx], files[idx], k))
    /\ stats' = [stats EXCEPT !.filesProcessed = @ + 1,
                              !.filesSkipped = @ + BabelSkips(fileStatus[idx])]
    /\ idx' = idx + 1
    /\ UNCHANGED <<inputs, call, pc, packageUsages, symMap, returned, fsWrites,
                   writeFailed, stdout, exitCode>>

(* After the traversal: record importCount, then write the output file      *)
(* (writeResultsToFile catches a write error and reports it) or print the   *)
(* results; the program then ends normally.                                 *)
BabelFinish ==
    /\ backend = "babel" /\ pc = "analyze" /\ idx > Len(files)
    /\ stats' = [stats EXCEPT !.importCount = Len(results)]
    /\ returned' = results
    /\ IF outArg # ""
       THEN \E ok \in BOOLEAN :
               IF ok
               THEN /\ fsWrites' = Append(fsWrites, [path |-> outArg, content |-> results])
                    /\ UNCHANGED <<writeFailed, stdout>>
               ELSE /\ writeFailed' = TRUE
                    /\ stdout' = Append(stdout, Line("Error writing to file"))
                    /\ UNCHANGED fsWrites
       ELSE /\ stdout' = Append(stdout, Printed(results))
            /\ UNCHANGED <<fsWrites, writeFailed>>
    /\ exitCode' = 0
    /\ pc' = "exited"
    /\ UNCHANGED <<inputs, call, idx, packageUsages, symMap, results>>

NextBabel ==
    \/ BabelCliStart
    \/ BabelTraverseDirectory
    \/ BabelAnalyzeFile
    \/ BabelFinish

SpecBabel == InitBabel /\ [][NextBabel]_vars

(* C5: a file that cannot be read, parsed or traversed does not stop the    *)
(* import analyzer: every file is processed, filesSkipped counts exactly    *)
(* one per failing file, the run ends normally, and every other file        *)
(* contributes exactly the records it yields on its own.                    *)
C5_FailingFileSkippedOnce ==
    (backend = "babel" /\ argsOk /\ rootOk) =>
        /\ stats.filesSkipped =
              Cardinality({f \in 1..stats.filesProcessed : fileStatus[f] # "ok"})
        /\ pc = "exited" =>
              /\ exitCode = 0
              /\ stats.filesProcessed = Len(files)
              /\ \A f \in 1..Len(files) :
                    fileStatus[f] = "ok" =>
                        SelectSeq(results, LAMBDA r : r.fileName = f)
                            = BabelFileRecords(f, files[f], pkgName, symName, Len(files[f]))

C5_Witness ==
    /\ backend = "babel" /\ pc = "exited" /\ argsOk /\ rootOk
    /\ Len(files) = 2
    /\ fileStatus[1] = "unparsable" /\ fileStatus[2] = "ok"
    /\ stats.filesSkipped = 1 /\ stats.filesProcessed = 2
    /\ Len(results) = 1 /\ results[1].fileName = 2

----------------------------------------------------------------------------
(* The Go package finder (packagefinder/pkg/finder/finder.go) and its       *)
(* command line (packagefinder/cmd/main.go).                                *)

(* Variant: positions counted from 0. *)
RECURSIVE GetLineAndCharacter_ZeroBased(_, _, _)
GetLineAndCharacter_ZeroBased(lines, offset, i) ==
    IF i >= Len(lines) \/ offset <= Len(lines[i])
    THEN [line |-> i - 1, character |-> offset]
    ELSE GetLineAndCharacter_ZeroBased(lines, offset - Len(lines[i]) - 1, i + 1)

(* getLineAndCharacter(content, offset): the number of "\n"-separated       *)
(* pieces of content[:offset], and the length of the last piece plus one.   *)
(* i is the piece reached so far (call with 1).                             *)
RECURSIVE GetLineAndCharacter(_, _, _)
GetLineAndCharacter(lines, offset, i) ==
    IF i >= Len(lines) \/ offset <= Len(lines[i])
    THEN [line |-> i, character |-> offset + 1]
    ELSE GetLineAndCharacter(lines, offset - Len(lines[i]) - 1, i + 1)

(* A PackageUsage located at column col of statement i of the file. *)
GoUsageAt(f, stmts, i, col, importedSymbols, importStyle) ==
    LET pos == GetLineAndCharacter(RenderLines(stmts), Offset(RenderLines(stmts), i, col), 1)
    IN  PackageUsage(f, stmts[i], pos.line, pos.character, importedSymbols, importStyle)

(* quickCheck: the content contains the package name between quotes. *)
GoQuickCheck(stmts, pkg) == \E i \in 1..Len(stmts) : stmts[i].spec = pkg

(* extractSymbolsFromES6Import *)
GoExtractSymbolsFromES6Import(st) ==
    CASE st.k = "importDefault" -> <<st.name>>
      [] st.k = "importNamed"   -> LocalNames(st.els)
      [] OTHER                  -> <<"(side-effect only)">>

(* Matches of es6ImportRegex whose module name is the package. *)
GoEs6ImportMatch(f, stmts, i, pkg) ==
    IF /\ stmts[i].k \in {"importNamed", "importDefault", "importNamespace",
                          "importSideEffect"}
       /\ stmts[i].spec = pkg
    THEN <<GoUsageAt(f, stmts, i, 0, GoExtractSymbolsFromES6Import(stmts[i]), "ES6Import")>>
    ELSE <<>>

(* Matches of es6ImportAllRegex: import * as NAME from 'package'. *)
GoEs6ImportAllMatch(f, stmts, i, pkg) ==
    IF stmts[i].k = "importNamespace" /\ stmts[i].spec = pkg
    THEN <<GoUsageAt(f, stmts, i, 0, <<"* as " \o stmts[i].name>>, "ES6Import")>>
    ELSE <<>>

(* Matches of requireRegex.  The optional declaration prefix only matches   *)
(* `const NAME = require(...)`: after a destructuring pattern the regex     *)
(* still demands `NAME =`, so a destructured require matches from the word  *)
(* require on, without any captured name.                                   *)
GoRequireMatch(f, stmts, i, pkg) ==
    IF stmts[i].spec # pkg THEN <<>>
    ELSE CASE stmts[i].k = "requireSimple" ->
                 <<GoUsageAt(f, stmts, i, 0, <<"(require)", stmts[i].name>>, "CommonJS")>>
           [] stmts[i].k = "requireDestructure" ->
                 <<GoUsageAt(f, stmts, i, DestructureRequireCol(stmts[i].els),
                             <<"(require)">>, "CommonJS")>>
           [] stmts[i].k \in {"requireProp", "requireBare"} ->
                 <<GoUsageAt(f, stmts, i, 0, <<"(require)">>, "CommonJS")>>
           [] OTHER -> <<>>

(* Matches of (?:window|global)\.<package>. *)
GoGlobalMatch(f, stmts, i, pkg) ==
    IF /\ stmts[i].k \in {"globalAccess", "propCall"}
       /\ stmts[i].name \in {"window", "global"}
       /\ StartsWith(stmts[i].prop, pkg)
    THEN <<GoUsageAt(f, stmts, i, 0, <<pkg>>, "GlobalVariable")>>
    ELSE <<>>

(* The match of one matcher on statement i. *)
GoMatch(matcher, f, stmts, i, pkg) ==
    CASE matcher = "es6Import"    -> GoEs6ImportMatch(f, stmts, i, pkg)
      [] matcher = "es6ImportAll" -> GoEs6ImportAllMatch(f, stmts, i, pkg)
      [] matcher = "require"      -> GoRequireMatch(f, stmts, i, pkg)
      [] matcher = "global"       -> GoGlobalMatch(f, stmts, i, pkg)

(* All matches of one matcher, in document order. *)
RECURSIVE GoAllMatches(_, _, _, _, _)
GoAllMatches(matcher, f, stmts, pkg, i) ==
    IF i > Len(stmts) THEN <<>>
    ELSE GoMatch(matcher, f, stmts, i, pkg) \o GoAllMatches(matcher, f, stmts, pkg, i + 1)

(* findPackageInFile *)
GoFindPackageInFile(f, stmts, pkg) ==
    IF ~GoQuickCheck(stmts, pkg) THEN <<>>
    ELSE GoAllMatches("es6Import", f, stmts, pkg, 1)
         \o GoAllMatches("es6ImportAll", f, stmts, pkg, 1)
         \o GoAllMatches("require", f, stmts, pkg, 1)
         \o GoAllMatches("global", f, stmts, pkg, 1)

GoPlaceholders ==
    {"(side-effect only)", "(dynamic import)", "(require)", "(SystemJS import)",
     "(UMD factory)", "(AMD require)", "(ImportMaps)", "(SystemJS config)",
     "(SystemJS register)"}

(* symbolsMap of a file: the imported symbols of its records that are not   *)
(* placeholders.                                                            *)
GoSymbolsMap(fileResults) ==
    UNION {Range(fileResults[i].importedSymbols) : i \in 1..Len(fileResults)}
        \ GoPlaceholders

(* The names searched by findSymbolUsages: "* as N" stands for N. *)
GoSearchedSymbols(symbolsMap) ==
    {IF StartsWith(sym, "* as ") THEN SubSeq(sym, 6, Len(sym)) ELSE sym : sym \in symbolsMap}

(* Lines skipped as import statements or require calls. *)
GoLineSkipped(st) ==
    st.k \in {"importNamed", "importDefault", "importNamespace",
              "requireDestructure", "requireSimple", "requireProp", "requireBare",
              "requireArray", "umd"}

(* Usages added by the words of line i, from word j on. *)
RECURSIVE GoLineUsages(_, _, _, _, _, _)
GoLineUsages(usages, lines, i, words, j, symbols) ==
    IF j > Len(words) THEN usages
    ELSE GoLineUsages(
             IF words[j].text \in symbols
             THEN AddUsage(usages, words[j].text,
                           GetLineAndCharacter(lines, Offset(lines, i, words[j].col), 1))
             ELSE usages,
             lines, i, words, j + 1, symbols)

RECURSIVE GoFileUsages(_, _, _, _)
GoFileUsages(usages, stmts, i, symbols) ==
    IF i > Len(stmts) THEN usages
    ELSE GoFileUsages(
             IF GoLineSkipped(stmts[i]) THEN usages
             ELSE GoLineUsages(usages, RenderLines(stmts), i, Words(Render(stmts[i])), 1,
                               symbols),
             stmts, i + 1, symbols)

(* findSymbolUsages, with its entries in order of first occurrence. *)
GoFindSymbolUsages(stmts, symbolsMap) ==
    GoFileUsages(<<>>, stmts, 1, GoSearchedSymbols(symbolsMap))

(* The entries are collected in a Go map and returned in iteration order,   *)
(* which is unspecified: any order can come out.                            *)
Reorderings(seq) ==
    {[i \in 1..Len(seq) |-> seq[perm[i]]] : perm \in Permutations(1..Len(seq))}

GoVocabularies == {
    {ImportNamed("p", << <<"a", "a">> >>), ImportNamespace("p", "N"), Call("a"),
     PropCall("N", "a"), GlobalAccess("window", "p"), GlobalAccess("window", "pq")},
    {RequireDestructure("p", << <<"a", "a">> >>), RequireSimple("p", "b"), Call("a"),
     PropCall("b", "a"), GlobalAccess("global", "p")}
}

GoFiles == UNION {SeqsUpTo(v, MaxStmtsShared) : v \in GoVocabularies}

GoProjects == {<<f>> : f \in GoFiles} \cup {<<f, NeighbourFile>> : f \in GoFiles}

InitGo ==
    /\ backend = "go"
    /\ InitCommon
    /\ symName = "*"
    /\ files \in (IF argsOk /\ rootOk THEN GoProjects ELSE {<<>>})
    /\ fileStatus \in [1..Len(files) -> {"ok", "unreadable"}]
    /\ symMap = NoKeys

(* main: flag.NArg() < 1 prints the usage and exits with 1. *)
GoCliStart ==
    /\ backend = "go" /\ pc = "cli"
    /\ IF argsOk
       THEN /\ pc' = "walk"
            /\ stdout' = Append(stdout, Line("Analyzing usage"))
            /\ UNCHANGED exitCode
       ELSE /\ pc' = "exited"
            /\ exitCode' = 1
            /\ stdout' = Append(stdout, Line("usage"))
    /\ UNCHANGED <<inputs, call, stats, idx, packageUsages, symMap, results, returned,
                   fsWrites, writeFailed>>

(* filepath.Walk on the root: an error for the root is returned by the      *)
(* callback, FindPackageUsage returns it and main exits with 1.             *)
GoWalkRoot ==
    /\ backend = "go" /\ pc = "walk"
    /\ IF rootOk
       THEN /\ pc' = IF files = <<>> THEN "output" ELSE "file"
            /\ UNCHANGED <<exitCode, stdout>>
       ELSE /\ pc' = "exited"
            /\ exitCode' = 1
            /\ stdout' = Append(stdout, Line("Error analyzing package usage"))
    /\ idx' = 1
    /\ UNCHANGED <<inputs, call, stats, packageUsages, symMap, results, returned,
                   fsWrites, writeFailed>>

(* The Walk callback on source file idx. *)
GoWalkFile ==
    /\ backend = "go" /\ pc = "file" /\ idx <= Len(files)
    /\ LET fileResults == GoFindPackageInFile(idx, files[idx], pkgName) IN
         IF fileStatus[idx] = "unreadable"
         THEN /\ stdout' = Append(stdout, Line("Warning: Could not read file"))
              /\ UNCHANGED <<results, symMap>>
         ELSE /\ results' = results \o fileResults
              /\ symMap' = [symMap EXCEPT ![idx] = GoSymbolsMap(fileResults)]
              /\ UNCHANGED stdout
    /\ pc' = IF idx < Len(files) THEN "file"
             ELSE IF results' = <<>> THEN "output" ELSE "usages"
    /\ idx' = IF idx < Len(files) THEN idx + 1 ELSE 1
    /\ UNCHANGED <<inputs, call, stats, packageUsages, returned, fsWrites, writeFailed,
                   exitCode>>

(* Second pass, on record idx of the results. *)
GoSecondPass ==
    /\ backend = "go" /\ pc = "usages" /\ idx <= Len(results)
    /\ LET f == results[idx].fileName IN
         IF symMap[f] = {}
         THEN UNCHANGED results
         ELSE \E symbolUsages \in Reorderings(GoFindSymbolUsages(files[f], symMap[f])) :
                 results' = IF symbolUsages = <<>> THEN results
                            ELSE [results EXCEPT ![idx].symbolUsages = symbolUsages]
    /\ pc' = IF idx < Len(results) THEN "usages" ELSE "output"
    /\ idx' = idx + 1
    /\ UNCHANGED <<inputs, call, stats, packageUsages, symMap, returned, fsWrites,
                   writeFailed, stdout, exitCode>>

(* main after the analysis: save to the -output file, exiting with 1 when   *)
(* that fails, or print the results.                                        *)
GoOutput ==
    /\ backend = "go" /\ pc = "output"
    /\ returned' = results
    /\ IF outArg # ""
       THEN \E ok \in BOOLEAN :
               IF ok
               THEN /\ fsWrites' = Append(fsWrites, [path |-> outArg, content |-> results])
                    /\ stdout' = Append(stdout, Line("Results saved to " \o outArg))
                    /\ exitCode' = 0
                    /\ UNCHANGED writeFailed
               ELSE /\ writeFailed' = TRUE
                    /\ stdout' = Append(stdout, Line("Error saving results to file"))
                    /\ exitCode' = 1
                    /\ UNCHANGED fsWrites
       ELSE /\ stdout' = Append(stdout, Printed(results))
            /\ exitCode' = 0
            /\ UNCHANGED <<fsWrites, writeFailed>>
    /\ pc' = "exited"
    /\ UNCHANGED <<inputs, call, stats, idx, packageUsages, symMap, results>>

NextGo ==
    \/ GoCliStart
    \/ GoWalkRoot
    \/ GoWalkFile
    \/ GoSecondPass
    \/ GoOutput

SpecGo == InitGo /\ [][NextGo]_vars

----------------------------------------------------------------------------
(* The package usage finder (src/utils/packageUsageFinder.ts) and its       *)
(* command line (src/findPackageUsage.ts).  Positions of the TypeScript     *)
(* API are 0-based; every position stored is line + 1, character + 1.       *)

(* Variant: a position stored as the TypeScript API gives it. *)
PkgPosition_ZeroBased(line, character) == [line |-> line, character |-> character]

(* line: line + 1, character: character + 1 *)
PkgPosition(line, character) == [line |-> line + 1, character |-> character + 1]

PkgUsageAt(f, st, line, col, importedSymbols, importStyle) ==
    PackageUsage(f, st, PkgPosition(line, col).line, PkgPosition(line, col).character,
                 importedSymbols, importStyle)

(* Column where the call require(...) starts. *)
RequireCallCol(st) ==
    CASE st.k = "requireDestructure" -> DestructureRequireCol(st.els)
      [] st.k = "requireSimple"      -> 9 + Len(st.name)
      [] st.k = "umd"                -> Len(UmdHead(st))
      [] OTHER                       -> 0

(* The command line calls analyzeAndSavePackageUsage(projectRoot,           *)
(* packageName, outputPath): the parameter enhancedDetection keeps its      *)
(* default.                                                                 *)
enhancedDetection == FALSE

(* Records of the AMD branch of visitNode for a call with a dependency      *)
(* array.  The branch is entered for a callee named define only; inside it  *)
(* the define check pushes one record for the first index of the package    *)
(* and the require check one record for every index of the package.         *)
PkgAmdRecords(f, st, line, pkg) ==
    LET hits == SelectSeq([i \in 1..Len(st.els) |-> i], LAMBDA i : st.els[i][1] = pkg)
        paramName(i) == IF st.els[i][2] = "" THEN "(anonymous)" ELSE st.els[i][2]
        record(callee, i) ==
            PkgUsageAt(f,
                Described(callee \o "([..., '" \o pkg \o "', ...], function(..., "
                              \o paramName(i) \o ", ...) { ... })"),
                line, 0, <<paramName(i)>>, "AMD")
    IN  IF ~(enhancedDetection /\ st.k = "define") \/ hits = <<>> THEN <<>>
        ELSE <<record("define", hits[1])>>
             \o [j \in 1..Len(hits) |-> record("require", hits[j])]

(* Records of a factory wrapper: the UMD branch needs a parenthesized       *)
(* function expression as callee and a variable statement initialised by    *)
(* require(pkg) directly in its body (form "outer"); the require call       *)
(* itself is then met by the CommonJS branch.                               *)
PkgUmdRecords(f, st, line, pkg) ==
    IF st.spec # pkg THEN <<>>
    ELSE (IF st.prop = "outer" /\ Len(st.els[1]) >= 2
          THEN <<PkgUsageAt(f, Described("UMD factory pattern"), line, 0,
                            <<"(UMD factory)">>, "UMD")>>
          ELSE <<>>)
         \o <<PkgUsageAt(f, st, line, RequireCallCol(st),
                         IF st.prop = "outer" THEN <<"(require)", st.name>>
                         ELSE <<"(require)">>,
                         "CommonJS")>>

(* Records pushed by visitNode for one statement (default detection). *)
PkgImportRecords(f, st, line, pkg) ==
    CASE st.k \in {"importNamed", "importDefault", "importNamespace", "importSideEffect"}
             /\ st.spec = pkg ->
            <<PkgUsageAt(f, st, line, 0,
                  CASE st.k = "importDefault"   -> <<st.name>>
                    [] st.k = "importNamed"     -> LocalNames(st.els)
                    [] st.k = "importNamespace" -> <<"* as " \o st.name>>
                    [] OTHER                    -> <<"(side-effect only)">>,
                  "ES6Import")>>
      [] st.k \in {"requireDestructure", "requireSimple", "requireProp", "requireBare"}
             /\ st.spec = pkg ->
            <<PkgUsageAt(f, st, line, RequireCallCol(st),
                  CASE st.k = "requireDestructure" -> <<"(require)">> \o LocalNames(st.els)
                    [] st.k = "requireSimple"      -> <<"(require)", st.name>>
                    [] OTHER                       -> <<"(require)">>,
                  "CommonJS")>>
      [] st.k \in {"globalAccess", "propCall"}
             /\ st.name \in {"window", "global"} /\ st.prop = pkg ->
            <<PkgUsageAt(f, st, line, 0, <<st.prop>>, "GlobalVariable")>>
      [] st.k \in {"define", "requireArray"} -> PkgAmdRecords(f, st, line, pkg)
      [] st.k = "umd" -> PkgUmdRecords(f, st, line, pkg)
      [] OTHER -> <<>>

(* Names entered in the file's entry of importedSymbolsByFile. *)
PkgImportKeys(st, pkg) ==
    IF st.spec # pkg THEN {}
    ELSE CASE st.k \in {"importNamed", "requireDestructure"} -> Range(LocalNames(st.els))
           [] st.k \in {"importDefault", "importNamespace", "requireSimple"} -> {st.name}
           [] st.k = "umd" /\ st.prop = "outer" -> {st.name}
           [] OTHER -> {}

RECURSIVE PkgFileImportRecords(_, _, _, _)
PkgFileImportRecords(f, stmts, pkg, i) ==
    IF i > Len(stmts) THEN <<>>
    ELSE PkgImportRecords(f, stmts[i], i - 1, pkg)
         \o PkgFileImportRecords(f, stmts, pkg, i + 1)

PkgFileImportKeys(stmts, pkg) ==
    UNION {PkgImportKeys(stmts[i], pkg) : i \in 1..Len(stmts)}

(* Identifiers skipped by the usage visitor. *)
PkgSkipIdentifier(n) ==
    \/ n.parent \in {"ImportDeclaration", "ImportSpecifier", "ImportClause"}
    \/ (n.parent = "CallExpression" /\ n.text = "require")
    \/ (n.parent = "PropertyAssignment" /\ n.isPropName)

(* Effect of visiting one node on usagesBySymbol. *)
PkgVisitNode(usages, n, line, keys) ==
    IF n.t = "id"
    THEN IF n.text \in keys /\ ~PkgSkipIdentifier(n)
         THEN AddUsage(usages, n.text, PkgPosition(line, n.col))
         ELSE usages
    ELSE IF n.text \in keys
         THEN AddUsage(usages, n.text \o "." \o n.prop, PkgPosition(line, n.col))
         ELSE usages

RECURSIVE PkgVisitNodes(_, _, _, _)
PkgVisitNodes(usages, nodes, i, keys) ==
    IF i > Len(nodes) THEN usages
    ELSE PkgVisitNodes(PkgVisitNode(usages, nodes[i].node, nodes[i].line, keys),
                       nodes, i + 1, keys)

(* __esModule interop: X.default on an imported X marks the first CommonJS  *)
(* record of the file that imports X as ESModuleInterop.                    *)
PkgInteropTarget(rs, f, x) ==
    {i \in 1..Len(rs) :
        /\ rs[i].fileName = f /\ rs[i].importStyle = "CommonJS"
        /\ x \in Range(rs[i].importedSymbols)
        /\ \A j \in 1..(i - 1) :
              ~(rs[j].fileName = f /\ rs[j].importStyle = "CommonJS"
                  /\ x \in Range(rs[j].importedSymbols))}

RECURSIVE PkgMarkInterop(_, _, _, _, _)
PkgMarkInterop(rs, f, nodes, i, keys) ==
    IF i > Len(nodes) THEN rs
    ELSE LET n == nodes[i].node
             hit == n.t = "pa" /\ n.prop = "default" /\ n.text \in keys
         IN  PkgMarkInterop(
                 IF hit
                 THEN [j \in 1..Len(rs) |->
                          IF j \in PkgInteropTarget(rs, f, n.text)
                          THEN [rs[j] EXCEPT !.importStyle = "ESModuleInterop"]
                          ELSE rs[j]]
                 ELSE rs,
                 f, nodes, i + 1, keys)

PkgVocabularies == {
    {ImportNamed("p", << <<"a", "a">> >>), ImportNamespace("p", "N"), Call("a"),
     PropCall("N", "a"), GlobalAccess("window", "p")},
    {RequireDestructure("p", << <<"a", "a">> >>), RequireSimple("p", "b"), Call("a"),
     PropCall("b", "default"), ObjLit("a")}
}

PkgFiles == UNION {SeqsUpTo(v, MaxStmtsShared) : v \in PkgVocabularies}

PkgProjects == {<<f>> : f \in PkgFiles} \cup {<<f, NeighbourFile>> : f \in PkgFiles}

InitPkg ==
    /\ backend = "pkg"
    /\ InitCommon
    /\ symName = "*"
    /\ files \in (IF argsOk /\ rootOk THEN PkgProjects ELSE {<<>>})
    /\ fileStatus = AllOk
    /\ symMap = NoKeys

(* args.length === 0: usage message and process.exit(1). *)
PkgCliStart ==
    /\ backend = "pkg" /\ pc = "cli"
    /\ IF argsOk
       THEN /\ pc' = "collect"
            /\ stdout' = Append(stdout, Line("Analyzing usage"))
            /\ UNCHANGED exitCode
       ELSE /\ pc' = "exited"
            /\ exitCode' = 1
            /\ stdout' = Append(stdout, Line("usage"))
    /\ UNCHANGED <<inputs, call, stats, idx, packageUsages, symMap, results, returned,
                   fsWrites, writeFailed>>

(* readFilesRecursively: fs.readdirSync throws on a missing root; the catch *)
(* of analyzeAndSavePackageUsage logs the error and the program ends.       *)
PkgCollect ==
    /\ backend = "pkg" /\ pc = "collect"
    /\ IF rootOk
       THEN /\ pc' = IF files = <<>> THEN "output" ELSE "imports"
            /\ UNCHANGED <<exitCode, stdout>>
       ELSE /\ pc' = "exited"
            /\ exitCode' = 0
            /\ stdout' = Append(stdout, Line("Error analyzing package usage"))
    /\ idx' = 1
    /\ UNCHANGED <<inputs, call, stats, packageUsages, symMap, results, returned,
                   fsWrites, writeFailed>>

(* visitNode over source file idx. *)
PkgImportsFile ==
    /\ backend = "pkg" /\ pc = "imports" /\ idx <= Len(files)
    /\ results' = results \o PkgFileImportRecords(idx, files[idx], pkgName, 1)
    /\ symMap' = [symMap EXCEPT ![idx] = PkgFileImportKeys(files[idx], pkgName)]
    /\ pc' = IF idx = Len(files) THEN "usages" ELSE "imports"
    /\ idx' = IF idx = Len(files) THEN 1 ELSE idx + 1
    /\ UNCHANGED <<inputs, call, stats, packageUsages, returned, fsWrites, writeFailed,
                   stdout, exitCode>>

(* visitNodeForUsages over source file idx. *)
PkgUsagesFile ==
    /\ backend = "pkg" /\ pc = "usages" /\ idx <= Len(files)
    /\ results' =
          IF symMap[idx] = {} THEN results
          ELSE TsAttachUsages(
                   PkgMarkInterop(results, idx, FileNodes(files[idx]), 1, symMap[idx]),
                   idx,
                   PkgVisitNodes(<<>>, FileNodes(files[idx]), 1, symMap[idx]))
    /\ pc' = IF idx = Len(files) THEN "output" ELSE "usages"
    /\ idx' = IF idx = Len(files) THEN 1 ELSE idx + 1
    /\ UNCHANGED <<inputs, call, stats, packageUsages, symMap, returned, fsWrites,
                   writeFailed, stdout, exitCode>>

(* analyzeAndSavePackageUsage after the analysis: write the output file     *)
(* when a path was given (an error is caught and logged), else print.       *)
PkgOutput ==
    /\ backend = "pkg" /\ pc = "output"
    /\ returned' = results
    /\ IF outArg # ""
       THEN \E ok \in BOOLEAN :
               IF ok
               THEN /\ fsWrites' = Append(fsWrites, [path |-> outArg, content |-> results])
                    /\ stdout' = Append(stdout, Line("Results saved to " \o outArg))
                    /\ UNCHANGED writeFailed
               ELSE /\ writeFailed' = TRUE
                    /\ stdout' = Append(stdout, Line("Error analyzing package usage"))
                    /\ UNCHANGED fsWrites
       ELSE /\ stdout' = Append(stdout, Printed(results))
            /\ UNCHANGED <<fsWrites, writeFailed>>
    /\ exitCode' = 0
    /\ pc' = "exited"
    /\ UNCHANGED <<inputs, call, stats, idx, packageUsages, symMap, results>>

NextPkg ==
    \/ PkgCliStart
    \/ PkgCollect
    \/ PkgImportsFile
    \/ PkgUsagesFile
    \/ PkgOutput

SpecPkg == InitPkg /\ [][NextPkg]_vars

(* The same command line over files written in the module formats. *)
PkgModuleVocabulary ==
    {Define(<< <<"p", "P">> >>), RequireArray(<< <<"p", "P">> >>),
     Umd("p", << <<"root", "factory">> >>, "P", "inner"),
     Umd("p", << <<"root", "factory">> >>, "P", "outer"),
     Call("P")}

PkgModuleFiles == SeqsUpTo(PkgModuleVocabulary, MaxStmtsShared)

InitPkgModules ==
    /\ backend = "pkg"
    /\ InitCommon
    /\ symName = "*"
    /\ files \in (IF argsOk /\ rootOk THEN {<<f>> : f \in PkgModuleFiles} ELSE {<<>>})
    /\ fileStatus = AllOk
    /\ symMap = NoKeys

SpecPkgModules == InitPkgModules /\ [][NextPkg]_vars

----------------------------------------------------------------------------
(* Properties of the Go finder, of reported positions and of the command    *)
(* lines.                                                                   *)

(* C6: an access window.<pkg> or global.<pkg> in a readable file yields a   *)
(* GlobalVariable record even when the file has no import of the package    *)
(* and never names it between quotes.                                       *)
C6_GlobalAccessRecorded ==
    (backend = "go" /\ pc = "exited" /\ argsOk /\ rootOk) =>
        \A f \in 1..Len(files) : \A i \in 1..Len(files[f]) :
            (/\ fileStatus[f] = "ok"
             /\ files[f][i].k = "globalAccess"
             /\ files[f][i].name \in {"window", "global"}
             /\ files[f][i].prop = pkgName) =>
                \E r \in Range(results) :
                    /\ r.fileName = f
                    /\ r.importStyle = "GlobalVariable"
                    /\ r.importStatement = files[f][i]

(* The three locators that report usage positions. *)
SpecLocators == (InitTs \/ InitGo \/ InitPkg) /\ [][NextTs \/ NextGo \/ NextPkg]_vars

(* The records that carry positions: packageUsages of findSymbolUsage (its  *)
(* results copy their positions), the results of the other two.             *)
Located == IF backend = "ts" THEN packageUsages ELSE results

(* With lines and columns counted from base, a word of the file starts at   *)
(* (line, character).                                                       *)
WordStartsAt(stmts, line, character, base) ==
    /\ line - base + 1 \in 1..Len(stmts)
    /\ \E w \in Range(Words(Render(stmts[line - base + 1]))) : w.col = character - base

(* Every position of record r, read with the given base, is the start of a  *)
(* word of r's file, and r's own line is the line of its statement.         *)
PositionsHaveBase(r, base) ==
    /\ WordStartsAt(files[r.fileName], r.line, r.character, base)
    /\ r.importStatement.k # "described"
          => files[r.fileName][r.line - base + 1] = r.importStatement
    /\ \A u \in Range(r.symbolUsages) : \A loc \in Range(u.locations) :
          WordStartsAt(files[r.fileName], loc.line, loc.character, base)

(* C7 as stated: every line and column in the records a locator ends with  *)
(* is 0-based.                                                              *)
C7_AllPositionsZeroBased ==
    pc = "exited" => \A r \in Range(Located) : PositionsHaveBase(r, 0)

PositionBase(b) == IF b = "ts" THEN 0 ELSE 1

(* C7: in the records a locator ends with, the lines and columns reported   *)
(* by findSymbolUsage are 0-based; those reported by the package usage      *)
(* finder and by the Go finder are 1-based.                                 *)
C7_PositionBasePerLocator ==
    pc = "exited" => \A r \in Range(Located) : PositionsHaveBase(r, PositionBase(backend))

C7_Witness ==
    /\ backend = "go" /\ pc = "exited"
    /\ \E r \in Range(results) :
          /\ r.line = 2 /\ r.character = 1
          /\ files[r.fileName][2] = r.importStatement
          /\ \E u \in Range(r.symbolUsages) : \E loc \in Range(u.locations) :
                loc.line = 1 /\ loc.character = 1

(* C8: a missing or unreadable project root ends the program with a         *)
(* non-zero exit code.                                                      *)
C8_MissingRootFails ==
    (pc = "exited" /\ argsOk /\ ~rootOk) => exitCode # 0

Saved == Line("Results saved to " \o outArg)

(* C9: when the output file cannot be written the program ends with a       *)
(* non-zero exit code and does not report the results as saved.             *)
C9_WriteFailureFails ==
    (pc = "exited" /\ writeFailed) => (exitCode # 0 /\ Saved \notin Range(stdout))

(* C10: without an output path no file is created and the results are       *)
(* printed on the console; a file is written only when a path was given.    *)
C10_NoPathNoFile ==
    (pc = "exited" /\ argsOk /\ rootOk /\ ~writeFailed) =>
        IF outArg = ""
        THEN fsWrites = <<>> /\ Printed(results) \in Range(stdout)
        ELSE \A i \in 1..Len(fsWrites) : fsWrites[i].path = outArg

----------------------------------------------------------------------------
(* Properties of the output file.                                           *)

(* The three programs that save their results: find-symbol-usage, the       *)
(* import analyzer and the Go finder.                                       *)
SpecWriters ==
    (InitTs \/ InitBabel \/ InitGo) /\ [][NextTs \/ NextBabel \/ NextGo]_vars

(* Every source file has been through every pass of the analysis. *)
AnalysisOver ==
    /\ pc \in {"report", "exited"}
    /\ backend = "babel" => stats.filesProcessed = Len(files)

(* C11: the output file is written at most once, and only after every file  *)
(* has been processed: whenever an output file exists the analysis is over  *)
(* and the file holds the complete results, so a run that stops during the  *)
(* analysis leaves no output file.                                          *)
C11_WrittenOnceAtEnd ==
    fsWrites # <<>> =>
        /\ Len(fsWrites) = 1
        /\ AnalysisOver
        /\ fsWrites[1].content = results

C11_Witness ==
    /\ backend = "babel" /\ pc = "exited"
    /\ Len(files) = 2 /\ stats.filesProcessed = 2
    /\ Len(fsWrites) = 1
    /\ \E r1, r2 \in Range(fsWrites[1].content) : r1.fileName = 1 /\ r2.fileName = 2

----------------------------------------------------------------------------
(* Properties of the result list.                                           *)

(* The local names bound by the named imports of pkg in a file. *)
NamedBindings(stmts, pkg) ==
    UNION {Range(LocalNames(stmts[i].els)) :
              i \in {k \in 1..Len(stmts) :
                        stmts[k].k = "importNamed" /\ stmts[k].spec = pkg}}

(* The file imports from pkg by named imports only, binds no name twice,    *)
(* and calls every name it binds.                                           *)
C12_Shape(stmts, pkg) ==
    /\ \A i \in 1..Len(stmts) :
          stmts[i].spec = pkg => stmts[i].k = "importNamed"
    /\ \A i, j \in 1..Len(stmts) :
          (i # j /\ stmts[i].spec = pkg /\ stmts[j].spec = pkg) =>
              Range(LocalNames(stmts[i].els)) \cap Range(LocalNames(stmts[j].els)) = {}
    /\ \A n \in NamedBindings(stmts, pkg) : \E i \in 1..Len(stmts) : stmts[i] = Call(n)

(* C12: under the wildcard query a file that imports n distinct bindings    *)
(* from the package contributes exactly n entries, and each entry pairs the *)
(* import position of a binding with the usages of that same binding.       *)
C12_OneEntryPerBinding ==
    (TsAnalysed /\ symName = "*") =>
        \A f \in 1..Len(files) :
            C12_Shape(files[f], pkgName) =>
                /\ Len(ResultsOfFile(f)) = Cardinality(NamedBindings(files[f], pkgName))
                /\ \A r \in Range(ResultsOfFile(f)) :
                      \E i \in 1..Len(r.importStatement.els) :
                          /\ r.importStatement.els[i][2] = r.importedSymbol
                          /\ r.character = ElNameCol("importNamed", r.importStatement.els, i)

(* Statement st is an ES6 import or a CommonJS require of a sub-path of pkg *)
(* ('pkg/...').                                                             *)
SubPathImport(st, pkg) ==
    /\ st.k \in {"importNamed", "importDefault", "importNamespace", "importSideEffect",
                 "requireDestructure", "requireSimple", "requireProp", "requireBare"}
    /\ StartsWith(st.spec, pkg \o "/")

(* C13: an ES6 import or CommonJS require whose module specifier is the     *)
(* package name followed by '/' and a sub-path is detected as an import     *)
(* site of the package.                                                     *)
C13_SubPathImportDetected ==
    (TsAnalysed /\ symName = "*") =>
        \A f \in 1..Len(files) : \A i \in 1..Len(files[f]) :
            SubPathImport(files[f][i], pkgName) =>
                \E u \in Range(packageUsages) :
                    u.fileName = f /\ u.importStatement = files[f][i]

----------------------------------------------------------------------------
(* Properties of the matching of the package name.                          *)

(* The name by which the statement of a record refers to a package: the     *)
(* accessed property for a global access, the module specifier otherwise.   *)
ReferredName(r) ==
    IF r.importStyle = "GlobalVariable" THEN r.importStatement.prop
    ELSE r.importStatement.spec

(* C14: no record is emitted for a name that merely starts with the package *)
(* name: the referred name of every record is the package name or, for an   *)
(* ES6 import or CommonJS require, the package name followed by '/'.        *)
C14_NoRecordForPrefix ==
    (backend = "go" /\ pc = "exited" /\ argsOk /\ rootOk) =>
        \A r \in Range(results) :
            \/ ReferredName(r) = pkgName
            \/ /\ r.importStyle \in {"ES6Import", "CommonJS"}
               /\ StartsWith(ReferredName(r), pkgName \o "/")

----------------------------------------------------------------------------
(* Properties of the import sites.                                          *)

(* Statement st is an ES6 import or a CommonJS require of pkg itself. *)
ImportSite(st, pkg) ==
    /\ st.k \in {"importNamed", "importDefault", "importNamespace", "importSideEffect",
                 "requireDestructure", "requireSimple", "requireProp", "requireBare"}
    /\ st.spec = pkg

(* C15: each syntactic import site of the package yields exactly one        *)
(* record; no statement is reported twice by two matchers.                  *)
C15_OneRecordPerSite ==
    (backend = "go" /\ pc = "exited" /\ argsOk /\ rootOk) =>
        \A f \in 1..Len(files) : \A i \in 1..Len(files[f]) :
            (fileStatus[f] = "ok" /\ ImportSite(files[f][i], pkgName)) =>
                Cardinality({k \in 1..Len(results) :
                                /\ results[k].fileName = f
                                /\ results[k].line = i}) = 1

----------------------------------------------------------------------------
(* getLineAndCharacter of the Go finder, called directly on a content       *)
(* string and an offset.                                                    *)

MaxContent == 5

(* strings.Split(str, "\n"): the pieces between the newlines, from the      *)
(* piece that starts at index start (1-based) on.                           *)
RECURSIVE SplitFrom(_, _, _)
SplitFrom(str, i, start) ==
    IF i > Len(str) THEN <<SubSeq(str, start, Len(str))>>
    ELSE IF SubSeq(str, i, i) = "\n"
         THEN <<SubSeq(str, start, i - 1)>> \o SplitFrom(str, i + 1, i + 1)
         ELSE SplitFrom(str, i + 1, start)

SplitLines(str) == SplitFrom(str, 1, 1)

(* Variant: the column is taken from the offset in the whole content. *)
GetLineAndCharacterAt_OffsetColumn(content, offset) ==
    LET lines == SplitLines(SubSeq(content, 1, offset))
    IN  [line |-> Len(lines), character |-> offset + 1]

(* getLineAndCharacter(content, offset): lines = Split(content[:offset]);   *)
(* lineNum = len(lines); charPos = len(lines[lineNum-1]) + 1.               *)
GetLineAndCharacterAt(content, offset) ==
    LET lines == SplitLines(SubSeq(content, 1, offset))
    IN  [line |-> Len(lines), character |-> Len(lines[Len(lines)]) + 1]

(* The strings of at most n characters over the given characters. *)
RECURSIVE StringsUpTo(_, _)
StringsUpTo(chars, n) ==
    IF n = 0 THEN {""}
    ELSE StringsUpTo(chars, n - 1)
             \cup {s \o c : s \in StringsUpTo(chars, n - 1), c \in chars}

Contents == StringsUpTo({"a", "\n"}, MaxContent)

(* The state around a direct call of a function: no command line runs. *)
InitDirect ==
    /\ backend = "direct"
    /\ files = <<>> /\ fileStatus = <<>> /\ symMap = <<>>
    /\ pkgName = "p" /\ symName = "*" /\ outArg = ""
    /\ argsOk = TRUE /\ rootOk = TRUE
    /\ pc = "call" /\ idx = 1
    /\ packageUsages = <<>> /\ results = <<>> /\ returned = <<>>
    /\ fsWrites = <<>> /\ writeFailed = FALSE
    /\ stdout = <<>> /\ exitCode = -1
    /\ stats = NoStats

InitGetLineAndCharacter ==
    /\ InitDirect
    /\ call \in {[fn |-> "getLineAndCharacter", content |-> c, offset |-> o,
                  done |-> FALSE, line |-> 0, character |-> 0] :
                     c \in Contents, o \in 0..MaxContent}
    /\ call.offset <= Len(call.content)

CallGetLineAndCharacter ==
    /\ backend = "direct" /\ pc = "call" /\ call.fn = "getLineAndCharacter"
    /\ LET pos == GetLineAndCharacterAt(call.content, call.offset)
       IN  call' = [call EXCEPT !.done = TRUE, !.line = pos.line,
                                !.character = pos.character]
    /\ pc' = "returned"
    /\ UNCHANGED <<inputs, stats, idx, packageUsages, symMap, results, returned,
                   fsWrites, writeFailed, stdout, exitCode>>

SpecGetLineAndCharacter == InitGetLineAndCharacter /\ [][CallGetLineAndCharacter]_vars

(* Indices of the newline characters among the first n characters. *)
NewlinesBefore(str, n) == {i \in 1..n : SubSeq(str, i, i) = "\n"}

(* Index of the last newline among the first n characters, 0 if none. *)
LastNewlineBefore(str, n) ==
    IF NewlinesBefore(str, n) = {} THEN 0
    ELSE CHOOSE i \in NewlinesBefore(str, n) : \A j \in NewlinesBefore(str, n) : j <= i

(* C16: for every content and every offset within it, getLineAndCharacter   *)
(* returns line = 1 + the number of newlines before the offset and column = *)
(* 1 + the number of characters between the last such newline (or the start *)
(* of the content) and the offset; the line-by-line computation used for    *)
(* the finder's records agrees with it.                                     *)
C16_LineAndCharacterOfOffset ==
    (call.fn = "getLineAndCharacter" /\ call.done) =>
        /\ call.line = 1 + Cardinality(NewlinesBefore(call.content, call.offset))
        /\ call.character = 1 + call.offset - LastNewlineBefore(call.content, call.offset)
        /\ GetLineAndCharacter(SplitLines(call.content), call.offset, 1)
               = [line |-> call.line, character |-> call.character]

C16_Witness ==
    /\ call.fn = "getLineAndCharacter" /\ call.done
    /\ call.content = "aa\na\n" /\ call.offset = 5
    /\ call.line = 3 /\ call.character = 1

----------------------------------------------------------------------------
(* The Go finder with AMD detection (findPackageInFile with amdDefineRegex) *)
(* called directly on the content of one file.  Go offsets are 0-based.     *)

RECURSIVE JoinLines(_, _)
JoinLines(lines, i) ==
    IF i > Len(lines) THEN ""
    ELSE (IF i > 1 THEN "\n" ELSE "") \o lines[i] \o JoinLines(lines, i + 1)

(* str[i] and str[from:to] *)
CharAt(str, i) == SubSeq(str, i + 1, i + 1)

Slice(str, from, to) == SubSeq(str, from + 1, to)

(* Offset of the first occurrence of sub in str at or after offset i, -1 if *)
(* there is none; strings.Index(str, sub) is GoIndexFrom(str, sub, 0).      *)
GoIndexFrom(str, sub, i) ==
    LET hits == {j \in i..(Len(str) - Len(sub)) : Slice(str, j, j + Len(sub)) = sub}
    IN  IF hits = {} THEN -1
        ELSE CHOOSE j \in hits : \A k \in hits : j <= k

GoIndex(str, sub) == GoIndexFrom(str, sub, 0)

WhiteSpace == {" ", "\n"}

RECURSIVE TrimLeft(_)
TrimLeft(str) ==
    IF str # "" /\ CharAt(str, 0) \in WhiteSpace
    THEN TrimLeft(Slice(str, 1, Len(str))) ELSE str

RECURSIVE TrimRight(_)
TrimRight(str) ==
    IF str # "" /\ CharAt(str, Len(str) - 1) \in WhiteSpace
    THEN TrimRight(Slice(str, 0, Len(str) - 1)) ELSE str

(* strings.TrimSpace *)
TrimSpace(str) == TrimLeft(TrimRight(str))

(* The offsets of the parentheses of content in [from, limit). *)
ParenOffsets(content, from, limit) ==
    SelectSeq([i \in 1..Len(content) |-> i - 1],
              LAMBDA i : i >= from /\ i < limit /\ CharAt(content, i) \in {"(", ")"})

(* The closing parenthesis of the define call: the scan starts at the       *)
(* opening parenthesis with openParens already 1, and only parentheses      *)
(* change its state; k is the index of the next one.                        *)
RECURSIVE AmdClosingParen(_, _, _, _)
AmdClosingParen(content, parens, k, openParens) ==
    IF k > Len(parens) THEN -1
    ELSE IF CharAt(content, parens[k]) = "("
         THEN AmdClosingParen(content, parens, k + 1, openParens + 1)
    ELSE IF openParens - 1 = 0 THEN parens[k]
    ELSE AmdClosingParen(content, parens, k + 1, openParens - 1)

(* The "complete define statement": from the start of the line of the match *)
(* to the end of the define call, or to the end of the content when no      *)
(* closing parenthesis is found.                                            *)
AmdStatement(content, start) ==
    LET lineStart    == LastNewlineBefore(content, start)
        closingBrace ==
            AmdClosingParen(content, ParenOffsets(content, start + 6, start + 1000), 1, 1)
        endOfDefine  ==
            IF closingBrace > start
            THEN IF closingBrace + 1 < Len(content) /\ CharAt(content, closingBrace + 1) = ";"
                 THEN closingBrace + 2 ELSE closingBrace + 1
            ELSE Len(content)
    IN  TrimSpace(Slice(content, lineStart, endOfDefine))

(* Truncation of statements longer than 100 characters. *)
AmdTruncate(importStatement) ==
    IF Len(importStatement) <= 100 THEN importStatement
    ELSE LET funcParamIdx == GoIndex(importStatement, "function(") IN
         IF funcParamIdx > 0 /\ funcParamIdx < 80
         THEN LET closeParen ==
                      GoIndex(Slice(importStatement, funcParamIdx, Len(importStatement)), ")")
                  closeParenIdx == funcParamIdx + closeParen + 1
              IN  IF closeParen > 0 /\ closeParenIdx < Len(importStatement)
                  THEN Slice(importStatement, 0, closeParenIdx) \o " {...}"
                  ELSE importStatement
         ELSE LET depsStart == GoIndex(importStatement, "[")
                  depsEnd   == GoIndex(importStatement, "]")
              IN  IF depsStart > 0 /\ depsEnd > depsStart /\ depsEnd < 100
                  THEN Slice(importStatement, 0, depsEnd + 1) \o ", function(...) {...}"
                  ELSE Slice(importStatement, 0, 97) \o "..."

(* All matches of ['"]([^'"]+)['"] in str from offset i: the quoted names. *)
NextQuote(str, i) ==
    LET single == GoIndexFrom(str, "'", i)
        double == GoIndexFrom(str, "\"", i)
    IN  IF single < 0 THEN double
        ELSE IF double < 0 THEN single
        ELSE IF single < double THEN single ELSE double

RECURSIVE QuotedNames(_, _)
QuotedNames(str, i) ==
    LET open  == NextQuote(str, i)
        close == IF open < 0 THEN -1 ELSE NextQuote(str, open + 1)
    IN  IF close < 0 THEN <<>>
        ELSE IF close > open + 1
             THEN <<Slice(str, open + 1, close)>> \o QuotedNames(str, close + 1)
             ELSE QuotedNames(str, open + 1)

(* The dependencies named in the first [...] of the statement (depsRegex    *)
(* and depNamesRegex); none when the statement has no such array.           *)
AmdDeps(importStatement) ==
    LET open  == GoIndex(importStatement, "[")
        close == IF open < 0 THEN -1 ELSE GoIndexFrom(importStatement, "]", open + 1)
    IN  IF close < 0 THEN <<>>
        ELSE QuotedNames(Slice(importStatement, open + 1, close), 0)

(* strings.Split(str, ","), each piece trimmed, empty pieces dropped. *)
RECURSIVE SplitParams(_)
SplitParams(str) ==
    LET comma == GoIndex(str, ",")
        first == TrimSpace(IF comma < 0 THEN str ELSE Slice(str, 0, comma))
    IN  (IF first = "" THEN <<>> ELSE <<first>>)
        \o (IF comma < 0 THEN <<>> ELSE SplitParams(Slice(str, comma + 1, Len(str))))

(* The parameters of the first function(...) of the statement (paramsRegex; *)
(* the rendering writes no space between `function` and the parenthesis).   *)
AmdParams(importStatement) ==
    LET func  == GoIndex(importStatement, "function(")
        close == IF func < 0 THEN -1 ELSE GoIndexFrom(importStatement, ")", func + 9)
    IN  IF close < 0 THEN <<>>
        ELSE SplitParams(Slice(importStatement, func + 9, close))

(* Both casing variants are added for react and react-* packages. *)
AmdReactCasing(importedSymbols, pkg) ==
    IF pkg = "react" \/ StartsWith(pkg, "react-")
    THEN LET hasLowerCase == \E s \in Range(importedSymbols) : s = "react" \/ s = pkg
             hasUpperCase == "React" \in Range(importedSymbols)
         IN  IF hasLowerCase /\ ~hasUpperCase THEN Append(importedSymbols, "React")
             ELSE IF hasUpperCase /\ ~hasLowerCase /\ pkg = "react"
                  THEN Append(importedSymbols, "react")
                  ELSE importedSymbols
    ELSE importedSymbols

(* The parameter at the index the package has among the dependencies, or    *)
(* the package name when no parameter was extracted.                        *)
AmdImportedSymbols(importStatement, pkg) ==
    LET deps   == AmdDeps(importStatement)
        params == AmdParams(importStatement)
        at     == {i \in 1..Len(deps) : deps[i] = pkg /\ \A j \in 1..(i - 1) : deps[j] # pkg}
    IN  AmdReactCasing(IF \E i \in at : i <= Len(params)
                       THEN <<params[CHOOSE i \in at : TRUE]>>
                       ELSE <<pkg>>,
                       pkg)

(* The records of the matches of amdDefineRegex from offset `from` on. The  *)
(* rendering writes every define call as `define([`.                        *)
RECURSIVE AmdDefineMatches(_, _, _, _, _)
AmdDefineMatches(f, lines, content, pkg, from) ==
    LET start == GoIndexFrom(content, "define([", from)
        close == IF start < 0 THEN -1 ELSE GoIndexFrom(content, "]", start + 8)
    IN  IF close < 0 THEN <<>>
        ELSE LET dependenciesStr == Slice(content, start + 8, close)
                 importStatement == AmdTruncate(AmdStatement(content, start))
                 pos             == GetLineAndCharacter(lines, start, 1)
             IN  (IF /\ dependenciesStr # ""
                     /\ \/ GoIndex(dependenciesStr, "'" \o pkg \o "'") >= 0
                        \/ GoIndex(dependenciesStr, "\"" \o pkg \o "\"") >= 0
                  THEN <<[fileName |-> f, importStatement |-> importStatement,
                          line |-> pos.line, character |-> pos.character,
                          importedSymbols |-> AmdImportedSymbols(importStatement, pkg),
                          importStyle |-> "RequireJS", symbolUsages |-> <<>>]>>
                  ELSE <<>>)
                 \o AmdDefineMatches(f, lines, content, pkg, close + 1)

(* quickCheck, then the matchers.  On files made of define calls and plain  *)
(* calls only amdDefineRegex can match.                                     *)
AmdFindPackageInFile(f, lines, pkg) ==
    LET content == JoinLines(lines, 1)
    IN  IF /\ GoIndex(content, "'" \o pkg \o "'") < 0
           /\ GoIndex(content, "\"" \o pkg \o "\"") < 0
        THEN <<>>
        ELSE AmdDefineMatches(f, lines, content, pkg, 0)

(* A define call whose dependencies fill most of a line. *)
DefineLong ==
    Define(<< <<"jquery", "J">>, <<"underscore", "U">>, <<"backbone", "B">>,
              <<"handlebars", "H">>, <<"moment", "M">>, <<"lodash", "L">>,
              <<"p", "P">> >>)

AmdVocabulary ==
    {Define(<< <<"p", "P">> >>), Define(<< <<"q", "Q">>, <<"p", "P">> >>),
     Define(<< <<"q", "Q">>, <<"p", "">> >>), DefineLong, Call("P"), Call("p")}

AmdFiles == SeqsUpTo(AmdVocabulary, MaxStmtsShared + 1)

InitAmd ==
    /\ InitDirect
    /\ call \in {[fn |-> "FindPackageUsage", file |-> stmts, done |-> FALSE,
                  records |-> <<>>, symbols |-> {}] : stmts \in AmdFiles}

(* FindPackageUsage on a project of one file: findPackageInFile, the        *)
(* symbols map of the file, and the second pass that attaches the usages    *)
(* found in the file to each of its records.                                *)
CallAmdFindPackageUsage ==
    /\ backend = "direct" /\ pc = "call" /\ call.fn = "FindPackageUsage"
    /\ LET fileResults == AmdFindPackageInFile(1, RenderLines(call.file), pkgName)
           symbolsMap  == GoSymbolsMap(fileResults)
       IN  \E symbolUsages \in
                 [1..Len(fileResults) ->
                     Reorderings(IF symbolsMap = {} THEN <<>>
                                 ELSE GoFindSymbolUsages(call.file, symbolsMap))] :
              call' = [call EXCEPT
                          !.done = TRUE,
                          !.symbols = symbolsMap,
                          !.records = [i \in 1..Len(fileResults) |->
                                          IF symbolUsages[i] = <<>> THEN fileResults[i]
                                          ELSE [fileResults[i] EXCEPT
                                                   !.symbolUsages = symbolUsages[i]]]]
    /\ pc' = "returned"
    /\ UNCHANGED <<inputs, stats, idx, packageUsages, symMap, results, returned,
                   fsWrites, writeFailed, stdout, exitCode>>

SpecAmd == InitAmd /\ [][CallAmdFindPackageUsage]_vars

(* Index of the package among the dependencies of a define call, 0 if it is *)
(* not one of them.                                                         *)
DependencyIndex(st, pkg) ==
    IF \E i \in 1..Len(st.els) : st.els[i][1] = pkg
    THEN CHOOSE i \in 1..Len(st.els) :
             st.els[i][1] = pkg /\ \A j \in 1..(i - 1) : st.els[j][1] # pkg
    ELSE 0

(* C17: for every define call that has the package at index i of its        *)
(* dependencies and a callback with a parameter at index i, a RequireJS     *)
(* record is emitted for the call whose bound symbol is that parameter.     *)
C17_DefineBindsParameterAtIndex ==
    (call.fn = "FindPackageUsage" /\ call.done) =>
        \A i \in 1..Len(call.file) :
            LET st == call.file[i]
                d  == DependencyIndex(st, pkgName)
            IN  (st.k = "define" /\ d > 0 /\ st.els[d][2] # "") =>
                    \E r \in Range(call.records) :
                        /\ r.line = i
                        /\ r.importStyle = "RequireJS"
                        /\ r.importedSymbols = <<st.els[d][2]>>

(* C18: for a define call that has the package at an index where the        *)
(* callback has no parameter, the record carries no bound symbol and no     *)
(* usage is searched or recorded on its behalf.                             *)
C18_NoBindingBeyondParameters ==
    (call.fn = "FindPackageUsage" /\ call.done) =>
        \A i \in 1..Len(call.file) :
            LET st == call.file[i]
                d  == DependencyIndex(st, pkgName)
            IN  (st.k = "define" /\ d > 0 /\ st.els[d][2] = "") =>
                    \A r \in Range(call.records) :
                        r.line = i =>
                            /\ GoSymbolsMap(<<r>>) = {}
                            /\ (Len(call.records) = 1 => r.symbolUsages = <<>>)

----------------------------------------------------------------------------
(* Module formats in the package usage finder run from its command line.    *)

(* C19: a factory wrapper, a function expression of two or more parameters  *)
(* invoked immediately, whose body contains a require of the package yields *)
(* a record with importStyle UMD at the wrapper's line.                     *)
C19_UmdWrapperRecorded ==
    (backend = "pkg" /\ pc = "exited" /\ argsOk /\ rootOk) =>
        \A f \in 1..Len(files) : \A i \in 1..Len(files[f]) :
            (files[f][i].k = "umd" /\ files[f][i].spec = pkgName) =>
                \E r \in Range(results) :
                    r.fileName = f /\ r.line = i /\ r.importStyle = "UMD"

(* C20: run from the command line, a call require([pkg], function(P) {})    *)
(* and a call define([pkg], function(P) {}) each yield a record of their    *)
(* file and line.                                                           *)
C20_DependencyArrayRecorded ==
    (backend = "pkg" /\ pc = "exited" /\ argsOk /\ rootOk) =>
        \A f \in 1..Len(files) : \A i \in 1..Len(files[f]) :
            (/\ files[f][i].k \in {"define", "requireArray"}
             /\ \E j \in 1..Len(files[f][i].els) : files[f][i].els[j][1] = pkgName) =>
                \E r \in Range(results) : r.fileName = f /\ r.line = i

----------------------------------------------------------------------------
(* Collection of the files to analyze: readFilesRecursively of the          *)
(* TypeScript locators, traverseDirectory of the Babel analyzer and the     *)
(* filepath.Walk callback of the Go finder, called on a directory tree.     *)
(* An entry of a directory is a file or a directory; ok is whether a file   *)
(* can be stat'ed and whether a directory can be listed.  A path is the     *)
(* sequence of names below the root.                                        *)

MaxEntries == 2

FileNames == {"a.ts", "b.md"}

DirNames == {"src", "node_modules", ".cache", "my_node_modules"}

FileEntry(name, ok) == [name |-> name, isDir |-> FALSE, ok |-> ok, children |-> <<>>]

DirEntry(name, ok, children) == [name |-> name, isDir |-> TRUE, ok |-> ok, children |-> children]

(* Directories below the root hold at most one file. *)
SubEntries == {<<>>} \cup {<<FileEntry(n, TRUE)>> : n \in FileNames}

Entries ==
    {FileEntry(n, ok) : n \in FileNames, ok \in BOOLEAN}
        \cup {DirEntry(n, ok, c) : n \in DirNames, ok \in BOOLEAN, c \in SubEntries}

(* The names of a directory are distinct. *)
Trees ==
    {t \in SeqsUpTo(Entries, MaxEntries) :
        \A i, j \in 1..Len(t) : t[i].name = t[j].name => i = j}

(* path.extname / filepath.Ext of a file name. *)
Ext(name) ==
    LET dots == {i \in 2..Len(name) : SubSeq(name, i, i) = "."}
    IN  IF dots = {} THEN ""
        ELSE SubSeq(name, CHOOSE i \in dots : \A j \in dots : j <= i, Len(name))

Extensions == {".js", ".jsx", ".ts", ".tsx"}

(* fullPath.includes(str), the root itself not containing str. *)
PathIncludes(fullPath, str) == \E k \in 1..Len(fullPath) : GoIndex(fullPath[k], str) >= 0

NoneCollected == [fileNames |-> <<>>, thrown |-> FALSE]

Throw(acc) == [acc EXCEPT !.thrown = TRUE]

(* readFilesRecursively(dir, extensions, fileNames), from entry i of dir:   *)
(* fs.statSync throws on an entry that cannot be stat'ed, fs.readdirSync on *)
(* a directory that cannot be listed; nothing catches inside the walk.      *)
RECURSIVE readFilesRecursively(_, _, _, _)
readFilesRecursively(dir, entries, i, acc) ==
    IF acc.thrown \/ i > Len(entries) THEN acc
    ELSE LET file     == entries[i]
             fullPath == Append(dir, file.name)
         IN  readFilesRecursively(dir, entries, i + 1,
                 IF ~file.isDir /\ ~file.ok THEN Throw(acc)
                 ELSE IF file.isDir /\ ~PathIncludes(fullPath, "node_modules")
                      THEN IF file.ok
                           THEN readFilesRecursively(fullPath, file.children, 1, acc)
                           ELSE Throw(acc)
                      ELSE IF Ext(file.name) \in Extensions
                           THEN [acc EXCEPT !.fileNames = Append(@, fullPath)]
                           ELSE acc)

(* traverseDirectory(dir), from entry i of dir; fileNames are the files     *)
(* handed to analyzeFile, which catches its own read errors.                *)
RECURSIVE traverseDirectory(_, _, _, _)
traverseDirectory(dir, entries, i, acc) ==
    IF acc.thrown \/ i > Len(entries) THEN acc
    ELSE LET file     == entries[i]
             filePath == Append(dir, file.name)
         IN  traverseDirectory(dir, entries, i + 1,
                 IF file.isDir
                 THEN IF file.name # "node_modules" /\ SubSeq(file.name, 1, 1) # "."
                      THEN IF file.ok
                           THEN traverseDirectory(filePath, file.children, 1, acc)
                           ELSE Throw(acc)
                      ELSE acc
                 ELSE IF Ext(file.name) \in Extensions
                      THEN [acc EXCEPT !.fileNames = Append(@, filePath)]
                      ELSE acc)

(* filepath.Walk with the callback of FindPackageUsage, from entry i of a   *)
(* directory; fileNames are the files that reach ioutil.ReadFile.  Walk     *)
(* hands a failed Lstat or a failed directory listing to the callback as    *)
(* err, and the callback returns it.                                        *)
RECURSIVE Walk(_, _, _, _)
Walk(dir, entries, i, acc) ==
    IF acc.thrown \/ i > Len(entries) THEN acc
    ELSE LET info == entries[i]
             path == Append(dir, info.name)
         IN  Walk(dir, entries, i + 1,
                 IF info.isDir
                 THEN IF info.name = "node_modules" \/ info.name = ".git" THEN acc
                      ELSE IF info.ok THEN Walk(path, info.children, 1, acc)
                      ELSE Throw(acc)
                 ELSE IF ~info.ok THEN Throw(acc)
                 ELSE IF Ext(info.name) \in Extensions
                      THEN [acc EXCEPT !.fileNames = Append(@, path)]
                      ELSE acc)

InitCollect ==
    /\ InitDirect
    /\ call \in [fn : {"readFilesRecursively", "traverseDirectory", "Walk"},
                 tree : Trees, done : {FALSE}, collected : {NoneCollected}]

CallReadFilesRecursively ==
    /\ backend = "direct" /\ pc = "call" /\ call.fn = "readFilesRecursively"
    /\ call' = [call EXCEPT !.done = TRUE,
                            !.collected = readFilesRecursively(<<>>, call.tree, 1, NoneCollected)]
    /\ pc' = "returned"
    /\ UNCHANGED <<inputs, stats, idx, packageUsages, symMap, results, returned,
                   fsWrites, writeFailed, stdout, exitCode>>

CallTraverseDirectory ==
    /\ backend = "direct" /\ pc = "call" /\ call.fn = "traverseDirectory"
    /\ call' = [call EXCEPT !.done = TRUE,
                            !.collected = traverseDirectory(<<>>, call.tree, 1, NoneCollected)]
    /\ pc' = "returned"
    /\ UNCHANGED <<inputs, stats, idx, packageUsages, symMap, results, returned,
                   fsWrites, writeFailed, stdout, exitCode>>

CallWalk ==
    /\ backend = "direct" /\ pc = "call" /\ call.fn = "Walk"
    /\ call' = [call EXCEPT !.done = TRUE,
                            !.collected = Walk(<<>>, call.tree, 1, NoneCollected)]
    /\ pc' = "returned"
    /\ UNCHANGED <<inputs, stats, idx, packageUsages, symMap, results, returned,
                   fsWrites, writeFailed, stdout, exitCode>>

SpecCollect ==
    InitCollect /\ [][CallReadFilesRecursively \/ CallTraverseDirectory \/ CallWalk]_vars

(* The collector named fn applied to a tree. *)
Collect(fn, tree) ==
    CASE fn = "readFilesRecursively" -> readFilesRecursively(<<>>, tree, 1, NoneCollected)
      [] fn = "traverseDirectory"    -> traverseDirectory(<<>>, tree, 1, NoneCollected)
      [] OTHER                       -> Walk(<<>>, tree, 1, NoneCollected)

(* The tree without the entries that cannot be read. *)
Readable(entries) == SelectSeq(entries, LAMBDA e : e.ok)

(* C21: an entry that cannot be read or stat'ed is skipped: the collection  *)
(* does not abort, and the files collected from the readable entries alone  *)
(* are all collected.                                                       *)
C21_UnreadableEntrySkipped ==
    (backend = "direct" /\ call.fn \in {"readFilesRecursively", "traverseDirectory", "Walk"}
        /\ call.done) =>
        /\ ~call.collected.thrown
        /\ Range(Collect(call.fn, Readable(call.tree)).fileNames)
              \subseteq Range(call.collected.fileNames)

(* The paths of all files of a tree. *)
RECURSIVE FilesUnder(_, _)
FilesUnder(dir, entries) ==
    UNION {IF entries[i].isDir
           THEN FilesUnder(Append(dir, entries[i].name), entries[i].children)
           ELSE {Append(dir, entries[i].name)} : i \in 1..Len(entries)}

(* Whether a path lies under a directory named node_modules or a directory  *)
(* whose name begins with '.'.                                              *)
UnderExcludedDirectory(path) ==
    \E k \in 1..(Len(path) - 1) : path[k] = "node_modules" \/ SubSeq(path[k], 1, 1) = "."

(* C22: a collection that ends collects exactly the files with extension    *)
(* .js, .jsx, .ts or .tsx that are not under a directory named node_modules *)
(* nor under a directory whose name begins with '.'.                        *)
C22_CollectedExactly ==
    (backend = "direct" /\ call.fn \in {"readFilesRecursively", "traverseDirectory", "Walk"}
        /\ call.done /\ ~call.collected.thrown) =>
        Range(call.collected.fileNames) =
            {path \in FilesUnder(<<>>, call.tree) :
                Ext(path[Len(path)]) \in Extensions /\ ~UnderExcludedDirectory(path)}

----------------------------------------------------------------------------
(* Usages recorded by findSymbolUsage.                                      *)

(* An identifier that is a binding occurrence: in an import clause, the     *)
(* variable or a destructuring target left of `= require(...)`, or the      *)
(* require callee.                                                          *)
IsBindingOccurrence(n) ==
    /\ n.t = "id"
    /\ \/ n.parent \in {"ImportClause", "ImportSpecifier", "NamespaceImport",
                        "VariableDeclaration", "BindingElement"}
       \/ (n.parent = "CallExpression" /\ n.text = "require")

(* The 0-based positions of the binding occurrences of a file. *)
BindingPositions(stmts) ==
    {Location(FileNodes(stmts)[i].line, FileNodes(stmts)[i].node.col) :
        i \in {j \in 1..Len(FileNodes(stmts)) : IsBindingOccurrence(FileNodes(stmts)[j].node)}}

(* C23: no usage location recorded by findSymbolUsage is the position of a  *)
(* binding occurrence.                                                      *)
C23_NoBindingOccurrenceRecorded ==
    (backend = "ts" /\ pc = "exited") =>
        \A r \in Range(packageUsages) : \A u \in Range(r.symbolUsages) :
            \A loc \in Range(u.locations) :
                Location(loc.line, loc.character) \notin BindingPositions(files[r.fileName])

----------------------------------------------------------------------------
(* The symbol usage analyzer with a text fallback: findSymbolUsage,         *)
(* processFileForImports, processFileForUsages, analyzeSymbolUsage and      *)
(* findSymbolUsageWithDirectParsing, called on a project.                   *)

(* Records pushed by processFileForImports for one statement.  The callback *)
(* is handed to ts.forEachChild(sourceFile, ...) and does not recurse: it   *)
(* sees the statements of the file only.  A VariableDeclaration and a       *)
(* PropertyAccessExpression are never statements, so of its three branches  *)
(* only the ImportDeclaration one can match.  A default import is recorded  *)
(* one character after the start of the module specifier.                   *)
processFileForImports(f, st, line, pkg, sym) ==
    IF st.spec # pkg THEN <<>>
    ELSE CASE st.k = "importDefault" ->
                 IF TsWanted(st.name, sym)
                 THEN <<PackageUsage(f, st, line, 14 + Len(st.name), <<st.name>>,
                                     "ES6Import")>>
                 ELSE <<>>
           [] st.k = "importNamed" -> TsElementRecords(f, st, line, sym, "ES6Import", 1)
           [] st.k = "importNamespace" ->
                 IF TsWanted(st.name, sym)
                 THEN <<PackageUsage(f, st, line, 12, <<"* as " \o st.name>>, "ES6Import")>>
                 ELSE <<>>
           [] OTHER -> <<>>

(* Names set in fileSymbolsMap by processFileForImports. *)
FileSymbolsMap(stmts, pkg) ==
    UNION {IF stmts[i].spec # pkg THEN {}
           ELSE CASE stmts[i].k = "importNamed" -> Range(LocalNames(stmts[i].els))
                  [] stmts[i].k \in {"importDefault", "importNamespace"} -> {stmts[i].name}
                  [] OTHER -> {} : i \in 1..Len(stmts)}

(* isPartOfImportOrRequire *)
isPartOfImportOrRequire(n) ==
    \/ n.parent \in {"ImportSpecifier", "ImportClause", "NamespaceImport"}
    \/ (n.parent = "CallExpression" /\ n.text = "require")
    \/ n.inRequireBinding

(* processFileForUsages from node i on.  A property access on a name that   *)
(* is not in the map returns before ts.forEachChild: its two identifiers    *)
(* are not visited.                                                         *)
RECURSIVE processFileForUsages(_, _, _, _, _)
processFileForUsages(usages, nodes, i, keys, sym) ==
    IF i > Len(nodes) THEN usages
    ELSE LET n    == nodes[i].node
             line == nodes[i].line
         IN  IF n.t = "id"
             THEN processFileForUsages(
                      IF n.text \in keys /\ ~isPartOfImportOrRequire(n)
                      THEN AddUsage(usages, n.text, Location(line, n.col))
                      ELSE usages,
                      nodes, i + 1, keys, sym)
             ELSE IF n.text \notin keys
                  THEN processFileForUsages(usages, nodes, i + 3, keys, sym)
                  ELSE processFileForUsages(
                           IF sym = "*" \/ n.prop = sym
                           THEN AddUsage(usages, n.text \o "." \o n.prop,
                                         Location(line, n.nameCol))
                           ELSE usages,
                           nodes, i + 1, keys, sym)

RECURSIVE ProjectImports(_, _, _, _)
ProjectImports(project, pkg, sym, f) ==
    IF f > Len(project) THEN <<>>
    ELSE LET RECURSIVE fileImports(_)
             fileImports(i) ==
                 IF i > Len(project[f]) THEN <<>>
                 ELSE processFileForImports(f, project[f][i], i - 1, pkg, sym)
                      \o fileImports(i + 1)
         IN  fileImports(1) \o ProjectImports(project, pkg, sym, f + 1)

(* findSymbolUsage: first pass, second pass (a file whose filtered map is   *)
(* empty is skipped), conversion.                                           *)
findSymbolUsage(project, pkg, sym) ==
    LET packageUsages0 == ProjectImports(project, pkg, sym, 1)
        keys(f) == TsFilterKeys(FileSymbolsMap(project[f], pkg), sym)
        attached ==
            [i \in 1..Len(packageUsages0) |->
                LET usage == packageUsages0[i] IN
                IF keys(usage.fileName) = {} THEN usage
                ELSE [usage EXCEPT !.symbolUsages =
                         processFileForUsages(<<>>, FileNodes(project[usage.fileName]), 1,
                                              keys(usage.fileName), sym)]]
    IN  TsConvert(attached, sym)

(* String.prototype.includes *)
Includes(str, sub) == GoIndex(str, sub) >= 0

(* Offsets of the matches of \bsym\b in line, in increasing order. *)
WordMatches(line, sym) ==
    LET isWord(k) == k >= 0 /\ k < Len(line) /\ CharAt(line, k) \in WordChars
        boundary(k) == isWord(k - 1) # isWord(k)
    IN  SelectSeq([k \in 1..Len(line) |-> k - 1],
                  LAMBDA k : /\ k + Len(sym) <= Len(line)
                             /\ Slice(line, k, k + Len(sym)) = sym
                             /\ boundary(k) /\ boundary(k + Len(sym)))

(* findSymbolUsagesInFile(lines, symbolName, undefined), from line i on:    *)
(* lines that contain `import` or `require(` are skipped.                   *)
RECURSIVE findSymbolUsagesInFile(_, _, _)
findSymbolUsagesInFile(lines, symbolName, i) ==
    IF i > Len(lines) THEN <<>>
    ELSE (IF lines[i] = "" \/ Includes(lines[i], "import") \/ Includes(lines[i], "require(")
          THEN <<>>
          ELSE [j \in 1..Len(WordMatches(lines[i], symbolName)) |->
                   Location(i - 1, WordMatches(lines[i], symbolName)[j])])
         \o findSymbolUsagesInFile(lines, symbolName, i + 1)

(* extractImportedSymbols(line, packageName): the text of each element of a *)
(* braced list, or the single name bound.                                   *)
extractImportedSymbols(st, pkg) ==
    IF st.spec # pkg THEN <<>>
    ELSE CASE st.k \in {"importNamed", "requireDestructure"} ->
                 [i \in 1..Len(st.els) |-> RenderEl(st.k, st.els[i])]
           [] st.k \in {"importDefault", "importNamespace", "requireSimple"} -> <<st.name>>
           [] OTHER -> <<>>

(* Results pushed by findSymbolUsageWithDirectParsing for line i of file f. *)
DirectParsingLine(f, stmts, i, pkg, sym) ==
    LET line  == Render(stmts[i])
        lines == RenderLines(stmts)
        result(importedSymbol, usageLocations) ==
            [filePath |-> f, importStatement |-> stmts[i], line |-> i - 1,
             character |-> GoIndex(line, pkg), importedSymbol |-> importedSymbol,
             importStyle |-> IF Includes(line, "require") THEN "CommonJS" ELSE "ES6Import",
             usageLocations |-> usageLocations]
        importedSymbols == extractImportedSymbols(stmts[i], pkg)
    IN  IF ~(Includes(line, pkg) /\ (Includes(line, "import") \/ Includes(line, "require")))
        THEN <<>>
        ELSE IF sym = "*"
        THEN IF importedSymbols # <<>>
             THEN [j \in 1..Len(importedSymbols) |->
                      result(importedSymbols[j],
                             findSymbolUsagesInFile(lines, importedSymbols[j], 1))]
             ELSE <<result(pkg, <<>>)>>
        ELSE IF Includes(line, sym)
             THEN <<result(sym, findSymbolUsagesInFile(lines, sym, 1))>>
             ELSE <<>>

(* packageImportPattern.test(fileContent) *)
PackageImportPattern(stmts, pkg, sym) ==
    \E i \in 1..Len(stmts) :
        /\ stmts[i].spec = pkg
        /\ \/ stmts[i].k \in {"importDefault", "importNamespace", "requireDestructure",
                              "requireSimple", "requireProp", "requireBare", "umd"}
           \/ /\ stmts[i].k = "importNamed"
              /\ \E j \in 1..Len(stmts[i].els) : sym \in Range(stmts[i].els[j])

(* findSymbolUsageWithDirectParsing, from file f on. *)
RECURSIVE findSymbolUsageWithDirectParsing(_, _, _, _)
findSymbolUsageWithDirectParsing(project, pkg, sym, f) ==
    IF f > Len(project) THEN <<>>
    ELSE LET stmts == project[f]
             RECURSIVE fileResults(_)
             fileResults(i) ==
                 IF i > Len(stmts) THEN <<>>
                 ELSE DirectParsingLine(f, stmts, i, pkg, sym) \o fileResults(i + 1)
             patternFound ==
                 IF sym = "*"
                 THEN \E i \in 1..Len(stmts) : Includes(Render(stmts[i]), "'" \o pkg \o "'")
                 ELSE PackageImportPattern(stmts, pkg, sym)
         IN  (IF patternFound THEN fileResults(1) ELSE <<>>)
             \o findSymbolUsageWithDirectParsing(project, pkg, sym, f + 1)

(* analyzeSymbolUsage: the results of findSymbolUsage, or those of the      *)
(* fallback when there are none.                                            *)
analyzeSymbolUsage(project, pkg, sym) ==
    IF findSymbolUsage(project, pkg, sym) = <<>>
    THEN findSymbolUsageWithDirectParsing(project, pkg, sym, 1)
    ELSE findSymbolUsage(project, pkg, sym)

AnalyzerVocabulary ==
    {ImportNamed("p", << <<"a", "a">> >>), ImportNamespace("p", "N"),
     RequireSimple("p", "b"), Call("a"), ObjLit("a"), PropCall("b", "a"),
     PropCall("N", "a")}

AnalyzerFiles == SeqsUpTo(AnalyzerVocabulary, MaxStmtsShared)

(* One file, alone or next to the fixed file. *)
AnalyzerProjects ==
    {<<f>> : f \in AnalyzerFiles}
        \cup {<<f, NeighbourFile>> : f \in AnalyzerFiles}
        \cup {<<NeighbourFile, f>> : f \in AnalyzerFiles}

InitAnalyzeSymbolUsage ==
    /\ InitDirect
    /\ call \in [fn : {"analyzeSymbolUsage"}, project : AnalyzerProjects,
                 symbolName : TsSymbols, done : {FALSE}, results : {<<>>}]

(* analyzeSymbolUsage(projectRoot, packageName, symbolName): the results    *)
(* are written to the default output path and returned; an error of the     *)
(* write is caught and [] is returned.                                      *)
CallAnalyzeSymbolUsage ==
    /\ backend = "direct" /\ pc = "call" /\ call.fn = "analyzeSymbolUsage"
    /\ LET found == analyzeSymbolUsage(call.project, pkgName, call.symbolName)
       IN  /\ call' = [call EXCEPT !.done = TRUE, !.results = found]
           /\ \E ok \in BOOLEAN :
                 IF ok
                 THEN /\ fsWrites' = Append(fsWrites, [path |-> DefaultOutputPath,
                                                       content |-> found])
                      /\ returned' = found
                      /\ UNCHANGED writeFailed
                 ELSE /\ writeFailed' = TRUE
                      /\ returned' = <<>>
                      /\ UNCHANGED fsWrites
    /\ pc' = "returned"
    /\ UNCHANGED <<inputs, stats, idx, packageUsages, symMap, results, stdout, exitCode>>

SpecAnalyzeSymbolUsage == InitAnalyzeSymbolUsage /\ [][CallAnalyzeSymbolUsage]_vars

(* The 0-based positions of the object-literal keys of a file. *)
PropertyKeyPositions(stmts) ==
    {Location(FileNodes(stmts)[i].line, FileNodes(stmts)[i].node.col) :
        i \in {j \in 1..Len(FileNodes(stmts)) :
                  /\ FileNodes(stmts)[j].node.parent = "PropertyAssignment"
                  /\ FileNodes(stmts)[j].node.isPropName}}

(* C24: in the analyzer with the text fallback too, no usage location is    *)
(* the position of the key of an object-literal property.                   *)
C24_PropertyKeyNotRecorded ==
    (backend = "direct" /\ call.fn = "analyzeSymbolUsage" /\ call.done) =>
        \A r \in Range(call.results) : \A loc \in Range(r.usageLocations) :
            Location(loc.line, loc.character) \notin
                PropertyKeyPositions(call.project[r.filePath])

(* The results of file f in a result list. *)
ResultsOf(rs, f) == SelectSeq(rs, LAMBDA r : r.filePath = f)

(* C25: the results reported for a file are those of the analysis of that   *)
(* file alone.                                                              *)
C25_FileResultsIndependent ==
    (backend = "direct" /\ call.fn = "analyzeSymbolUsage" /\ call.done) =>
        \A f \in 1..Len(call.project) :
            LET alone == analyzeSymbolUsage(<<call.project[f]>>, pkgName, call.symbolName)
            IN  ResultsOf(call.results, f)
                    = [i \in 1..Len(alone) |-> [alone[i] EXCEPT !.filePath = f]]

----------------------------------------------------------------------------
(* The order of the records in the final result list.                       *)

(* Position p is not after position q (line, then column). *)
NotAfter(p, q) == p.line < q.line \/ (p.line = q.line /\ p.character <= q.character)

(* The records are grouped by file in the order of the files and, within a  *)
(* file, in non-decreasing order of the position of the import site.        *)
FileThenPositionOrder(rs) ==
    \A i, j \in 1..Len(rs) :
        i < j => /\ rs[i].fileName <= rs[j].fileName
                 /\ rs[i].fileName = rs[j].fileName => NotAfter(rs[i], rs[j])

(* C26: in the final result list the records are ordered by file and,      *)
(* within one file, by non-decreasing source position (line, then column)   *)
(* of the import site: a record of a later position in a file never         *)
(* precedes a record of an earlier position in the same file.  Stated for   *)
(* the result list the Go finder hands to its output.                       *)
C26_FileThenPositionOrder ==
    (backend = "go" /\ pc = "exited" /\ argsOk /\ rootOk) => FileThenPositionOrder(returned)

----------------------------------------------------------------------------
(* Imports whose symbols are never used, under the wildcard query.          *)

(* The imported symbols of a record that are not placeholders. *)
NamedSymbols(usage) ==
    {s \in Range(usage.importedSymbols) : s # "" /\ SubSeq(s, 1, 1) # "("}

(* C27: under the wildcard query, an import site whose bound symbols are   *)
(* never used in the file still appears in the output: it yields one entry  *)
(* per non-placeholder imported symbol, each with an empty usageLocations   *)
(* list.                                                                    *)
C27_UnusedImportListed ==
    (TsAnalysed /\ symName = "*") =>
        \A u \in 1..Len(packageUsages) :
            packageUsages[u].symbolUsages = <<>> =>
                \A s \in NamedSymbols(packageUsages[u]) :
                    \E r \in 1..Len(results) :
                        /\ results[r].filePath = packageUsages[u].fileName
                        /\ results[r].line = packageUsages[u].line
                        /\ results[r].character = packageUsages[u].character
                        /\ results[r].importedSymbol = s
                        /\ results[r].usageLocations = <<>>

----------------------------------------------------------------------------
(* The second pass over one file and the records of the other files.        *)

(* A step of the second pass of findSymbolUsage or of findPackageUsage over *)
(* source file idx.                                                         *)
SecondPassStep == backend \in {"ts", "pkg"} /\ pc = "usages" /\ idx <= Len(files)

(* C28: attaching usages (and the ESModuleInterop restyling) during the    *)
(* second pass over file F modifies only records whose file is F: every     *)
(* record that belongs to another file keeps the same import statement,     *)
(* position, style, imported symbols and usage list before and after F is   *)
(* processed, and no record is added or removed.                            *)
C28_OtherFilesUntouched ==
    [][SecondPassStep =>
          /\ Len(Located') = Len(Located)
          /\ \A r \in 1..Len(Located) :
                Located[r].fileName # idx => Located'[r] = Located[r]]_vars

(* Both files of a project have records; the second pass restyled a record  *)
(* of the first file and attached usages to the records of both.            *)
C28_Witness ==
    /\ backend = "pkg" /\ pc = "output" /\ Len(files) = 2
    /\ \E r1, r2 \in 1..Len(results) :
          /\ results[r1].fileName = 1 /\ results[r2].fileName = 2
          /\ results[r1].importStyle = "ESModuleInterop"
          /\ results[r1].symbolUsages # <<>>
          /\ results[r2].symbolUsages # <<>>
          /\ results[r1].symbolUsages # results[r2].symbolUsages

----------------------------------------------------------------------------
(* The counters of the import analyzer over a tree with subdirectories.     *)
(* files are the candidate files in the order traverseDirectory meets them. *)
(* fs.readdirSync of a subdirectory is not guarded: when it throws, the     *)
(* exception leaves every traverseDirectory frame and reaches the catch     *)
(* around the analysis, which exits with code 1.  call.failsAt is the       *)
(* position of the unreadable subdirectory: n >= 1 when it is met just      *)
(* before candidate file n (after the last one for n = Len(files) + 1),     *)
(* 0 when every subdirectory can be read.                                   *)

ReadDirFails(i) == call.failsAt = i

InitBabelTree ==
    /\ backend = "babel"
    /\ pkgName = "p" /\ symName \in BabelSymbols /\ outArg \in OutArgs
    /\ argsOk \in BOOLEAN /\ rootOk \in BOOLEAN
    /\ files \in (IF argsOk /\ rootOk THEN BabelProjects ELSE {<<>>})
    /\ fileStatus \in [1..Len(files) -> FileStatuses]
    /\ call \in [fn : {"readdirSync"}, failsAt : 0..(Len(files) + 1)]
    /\ pc = "cli" /\ idx = 1
    /\ packageUsages = <<>> /\ results = <<>> /\ returned = <<>>
    /\ fsWrites = <<>> /\ writeFailed = FALSE
    /\ stdout = <<>> /\ exitCode = -1
    /\ stats = NoStats
    /\ symMap = NoKeys

(* traverseDirectory reaches the unreadable subdirectory. *)
BabelReadDirFails ==
    /\ backend = "babel" /\ pc = "analyze" /\ ReadDirFails(idx)
    /\ pc' = "exited"
    /\ exitCode' = 1
    /\ stdout' = Append(stdout, Line("Error"))
    /\ UNCHANGED <<inputs, call, stats, idx, packageUsages, symMap, results, returned,
                   fsWrites, writeFailed>>

BabelTreeAnalyzeFile == ~ReadDirFails(idx) /\ BabelAnalyzeFile

BabelTreeFinish == ~ReadDirFails(idx) /\ BabelFinish

NextBabelTree ==
    \/ BabelCliStart
    \/ BabelTraverseDirectory
    \/ BabelReadDirFails
    \/ BabelTreeAnalyzeFile
    \/ BabelTreeFinish

SpecBabelTree == InitBabelTree /\ [][NextBabelTree]_vars

(* The counters are ordered and bounded by the number of candidate files. *)
CountersOrdered ==
    /\ 0 <= stats.filesSkipped
    /\ stats.filesSkipped <= stats.filesProcessed
    /\ stats.filesProcessed <= Len(files)

(* No step decreases a counter, and a step that analyzes a file is a step   *)
(* on the next candidate file: no file is analyzed twice.                   *)
CountersStep ==
    /\ stats'.filesSkipped >= stats.filesSkipped
    /\ stats'.filesProcessed >= stats.filesProcessed
    /\ stats'.filesProcessed # stats.filesProcessed =>
          /\ stats'.filesProcessed = stats.filesProcessed + 1
          /\ stats.filesProcessed = idx - 1
          /\ idx' = idx + 1

(* Every candidate file was analyzed and importCount is the number of       *)
(* records.                                                                 *)
AllAnalyzedAndCounted ==
    /\ stats.filesProcessed = Len(files)
    /\ stats.importCount = Len(results)

----------------------------------------------------------------------------
(* Repeated runs of the Go finder on files that use two imported symbols.   *)

GoTwoSymbolVocabulary ==
    {ImportNamed("p", << <<"a", "a">>, <<"c", "c">> >>), Call("a"), Call("c"),
     PropCall("a", "c")}

GoTwoSymbolFiles == SeqsUpTo(GoTwoSymbolVocabulary, MaxStmtsShared)

InitGoTwoSymbols ==
    /\ backend = "go"
    /\ InitCommon
    /\ symName = "*"
    /\ files \in (IF argsOk /\ rootOk
                  THEN {<<f>> : f \in GoTwoSymbolFiles}
                           \cup {<<f, NeighbourFile>> : f \in GoTwoSymbolFiles}
                  ELSE {<<>>})
    /\ fileStatus \in [1..Len(files) -> {"ok", "unreadable"}]
    /\ symMap = NoKeys

SpecGoTwoSymbols == InitGoTwoSymbols /\ [][NextGo]_vars

(* The symbolUsages of the records of file f in the order in which the      *)
(* symbols first occur in the file: the outcome of the run in which the map *)
(* is iterated in insertion order.                                          *)
GoFirstOccurrenceUsages(f) ==
    GoFindSymbolUsages(files[f], GoSymbolsMap(GoFindPackageInFile(f, files[f], pkgName)))

(* C30: two runs of the Go finder on the same file tree with the same      *)
(* package name produce identical results, including the order of the       *)
(* records and the order of the symbolUsages entries inside each record.    *)
(* One run is the run that lists the symbols in order of first occurrence;  *)
(* the claim then says that every run returns what that run returns.        *)
C30_RunsIdentical ==
    (backend = "go" /\ pc = "exited" /\ argsOk /\ rootOk) =>
        \A r \in 1..Len(returned) :
            returned[r].symbolUsages
                \in {<<>>, GoFirstOccurrenceUsages(returned[r].fileName)}

====
